---- MODULE Spec2Model ----
(***************************************************************************)
(* The reconciliation engine of kubernetes-aws-resource-service:           *)
(*   - PromisesQueue (src/promises-queue.ts): one promise chain per name   *)
(*   - resourceLoop  (src/index.ts): list, enqueue updates, watch,         *)
(*     dispatch events, restart on 'end'                                   *)
(*   - the ResourceClient operations as seen by the loop: a call that is   *)
(*     in flight, may wait in the transient-error retry delay              *)
(*     (src/resources/utils.ts) and settles with success or failure.       *)
(*                                                                         *)
(* JavaScript runs every handler to completion and then drains the         *)
(* promise reaction (microtask) queue before the next event is handled.    *)
(* An action below is therefore one handler followed by the reactions it   *)
(* makes runnable (operator then).                                         *)
(***************************************************************************)
EXTENDS Integers, Sequences, FiniteSets, TLC

\* ---------------------------------------------------------------- bounds
\* Total number of operations enqueued over all queues in one run.
MaxOps == 3
\* Number of successful list calls (list+watch cycles) per kind.
MaxCycles == 2
\* Number of ERROR / unrecognized watch events handled per kind.
MaxWarn == 1
\* Number of responses the provider has in store for one retried operation.
MaxAttempts == 3
\* Number of nested create / update calls of an adapter.
MaxDepth == 3

\* ------------------------------------------------------------- the domain
Kinds == {"queues", "roles", "buckets"}

Names == {"r1", "r2"}

\* The order in which the watch source lists names.
NameIndex(n) == IF n = "r1" THEN 1 ELSE 2

\* A snapshot of a declared resource (the body of a list item or of an event
\* object) is identified by its delivery number: the n-th snapshot the watch
\* source hands to the loop is n, so no two deliveries carry the same object.
Snapshot(q, i) == Len(q.ops) + i

\* Resource versions returned by list().
RVs == {1, 2}

EventTypes == {"ADDED", "MODIFIED", "DELETED", "ERROR", "BOOKMARK"}

VARIABLES
    process,    \* "starting" | "running" | "exited"
    enabled,    \* the kinds selected by --resource-type
    phase,      \* per kind: "off" | "listing" | "watching" | "stopped"
    cycle,      \* per kind: number of list calls that have returned
    lastList,   \* per kind: the response of the latest list call that returned
    watchRV,    \* per kind: the resourceVersion given to the latest watch call
    warned,     \* per kind: number of watch events logged and ignored
    promises,   \* per kind: PromisesQueue.promises, name -> promise (0: no entry)
    ops,        \* every promise made by PromisesQueue.enqueue, in enqueue order
    calls,      \* per kind and name: the calls the ResourceClient received, in order
    loops,      \* per kind: the list calls that have not returned and the open watch streams
    retry,      \* one call of retryOnTransientNetworkErrors (resources/utils.ts)
    adapter,    \* one call of an adapter's create, update or delete and the calls it makes
    client      \* a bucket and a role at the provider, and one call of a client helper

vars == <<process, enabled, phase, cycle, lastList, watchRV, warned, promises, ops, calls, loops,
          retry, adapter, client>>

\* The variables of the reconciliation loop.
loopVars == <<process, enabled, phase, cycle, lastList, watchRV, warned, promises, ops, calls,
             loops>>

\* The three variables a PromisesQueue and its reactions work on.
Q == [ops |-> ops, promises |-> promises, calls |-> calls]

\* ------------------------------------------------------ src/index.ts: events
\* The ResourceClient method the 'data' handler picks for an event type
\* (switch, lines 113-140); "none": the event is logged and ignored.
NextFor_Swapped(type) ==
    CASE type = "ADDED" -> "update"
      [] type = "MODIFIED" -> "create"
      [] type = "DELETED" -> "delete"
      [] OTHER -> "none"

NextFor_ErrorDeletes(type) ==
    CASE type = "ADDED" -> "create"
      [] type = "MODIFIED" -> "update"
      [] type \in {"DELETED", "ERROR"} -> "delete"
      [] OTHER -> "none"

NextFor(type) ==
    CASE type = "ADDED" -> "create"
      [] type = "MODIFIED" -> "update"
      [] type = "DELETED" -> "delete"
      [] OTHER -> "none"

\* The function next built by the 'data' handler: it calls the method with the
\* object of the event (lines 108, 115-130).
EventNext(type, resource) == [op |-> NextFor(type), arg |-> resource]

\* The function enqueued for a list item: update(resource) (lines 98-101).
SyncNext_Create(resource) == [op |-> "create", arg |-> resource]

SyncNext(resource) == [op |-> "update", arg |-> resource]

\* --------------------------------------------------- src/promises-queue.ts
\* A promise made by enqueue(name, next) of the queue of kind k:
\*   prev   the promise it was chained on (0: Promise.resolve())
\*   event  what the loop enqueued it for: [type, obj, cycle], type "LIST" for
\*          a list item
\*   next   the function to call: [op, arg]
\*   state  of the promise; src: the operation whose result or error it holds
\*   call   of next(): "none" | "calling" | "delay" | "ok" | "fail"
\*   log    what logOperationResult logged for it: "none" | "info" | "error"
NewPromise(k, name, prev, event, next) ==
    [type |-> k, name |-> name, prev |-> prev, event |-> event, next |-> next,
     state |-> "pending", src |-> 0, call |-> "none", log |-> "none"]

\* previousPromise of enqueue (line 9).
PreviousPromise_Global(q, k, name) == Len(q.ops)

\* One queue for all kinds: the latest promise made for the name in any kind.
PreviousPromise_SharedQueue(q, k, name) ==
    LET S == {i \in 1..Len(q.ops) : q.ops[i].name = name}
    IN  IF S = {} THEN 0 ELSE CHOOSE i \in S : \A j \in S : j <= i

PreviousPromise(q, k, name) == q.promises[k][name]

\* PromisesQueue.enqueue (lines 7-14), without the reactions.
enqueue_NoStore(q, k, name, event, next) ==
    [q EXCEPT !.ops = Append(@, NewPromise(k, name, PreviousPromise(q, k, name), event, next))]

enqueue(q, k, name, event, next) ==
    LET previousPromise == PreviousPromise(q, k, name)
        nextPromise == Len(q.ops) + 1
    IN  [q EXCEPT !.ops = Append(@, NewPromise(k, name, previousPromise, event, next)),
                  !.promises[k][name] = nextPromise]

\* Whether the reaction of previousPromise.then(next) calls next:
\* then() was given no rejection handler (line 10).
CallsNext_Always(q, i) ==
    q.ops[i].prev = 0 \/ q.ops[q.ops[i].prev].state \in {"fulfilled", "rejected"}

CallsNext_Early(q, i) == TRUE

CallsNext(q, i) ==
    q.ops[i].prev = 0 \/ q.ops[q.ops[i].prev].state = "fulfilled"

\* The reaction of a rejected previousPromise: nextPromise is rejected with the
\* same error and next is not called.
PassesRejection(q, i) ==
    q.ops[i].prev # 0 /\ q.ops[q.ops[i].prev].state = "rejected"

\* What previousPromise.then(next) makes of a rejected previousPromise p: with
\* no rejection handler, a promise rejected with the error of p.
Rejection_Handled(q, p) == [state |-> "fulfilled", src |-> 0]

Rejection(q, p) == [state |-> "rejected", src |-> q.ops[p].src]

\* logOperationResult (index.ts 59-67): the level at which the settled promise
\* of an operation is logged with the name of its resource.
LogOperationResult_Silent(state) == IF state = "fulfilled" THEN "info" ELSE "none"

LogOperationResult(state) == IF state = "fulfilled" THEN "info" ELSE "error"

\* The promise reactions that are runnable, run in enqueue order until none is left.
RECURSIVE thenFrom(_, _)
thenFrom(q, i) ==
    IF i > Len(q.ops) THEN q
    ELSE LET o == q.ops[i] IN
         IF o.state = "pending" /\ o.call = "none" /\ CallsNext(q, i)
         THEN thenFrom([q EXCEPT !.ops[i].call = "calling",
                                 !.calls[o.type][o.name] =
                                     Append(@, [id |-> i, op |-> o.next.op, arg |-> o.next.arg])],
                       i + 1)
         ELSE IF o.state = "pending" /\ o.call = "none" /\ PassesRejection(q, i)
         THEN thenFrom([q EXCEPT !.ops[i].state = Rejection(q, o.prev).state,
                                 !.ops[i].src = Rejection(q, o.prev).src,
                                 !.ops[i].log = LogOperationResult(Rejection(q, o.prev).state)],
                       i + 1)
         ELSE thenFrom(q, i + 1)

then(q) == thenFrom(q, 1)

\* -------------------------------------------------- src/index.ts: the loop
\* The names list() can return: every name at most once, in the source's order.
NameLists ==
    { s \in UNION { [1..m -> Names] : m \in 0..Cardinality(Names) } :
        \A i, j \in 1..Len(s) : i < j => NameIndex(s[i]) < NameIndex(s[j]) }

\* The items of a list response with these names.
Items(q, names) == [i \in 1..Len(names) |-> [name |-> names[i], obj |-> Snapshot(q, i)]]

\* The for loop over list.items (lines 96-102).
RECURSIVE EnqueueItems(_, _, _, _, _)
EnqueueItems(q, k, items, c, i) ==
    IF i > Len(items) THEN q
    ELSE EnqueueItems(
            enqueue(q, k, items[i].name,
                    [type |-> "LIST", obj |-> items[i].obj, cycle |-> c],
                    SyncNext(items[i].obj)),
            k, items, c, i + 1)

\* The queue a restarted loop works on: the one it was started with (line 149).
LoopQueue_Fresh(k) == [n \in Names |-> 0]

LoopQueue(k) == promises[k]

\* The resourceVersion the watch is opened with (lines 93, 106).
WatchFrom_Stale(k, list) == IF cycle[k] = 0 THEN list.resourceVersion ELSE watchRV[k]

WatchFrom(k, list) == list.resourceVersion

\* What the runtime does with a rejected promise nobody handles. The promise
\* logOperationResult returns is rejected again (throw err, line 65) and its
\* callers drop it (lines 98, 143); so is the promise of a restarted
\* resourceLoop (line 149). The Node.js of the image (Dockerfile line 1,
\* node:carbon) prints a warning and goes on.
OnUnhandledRejection_Exit == "exit"

OnUnhandledRejection == "warn"

\* The process after the reactions that led to q: a promise that became
\* rejected was logged and rethrown into an unhandled rejection.
AfterReactions(q) ==
    IF /\ OnUnhandledRejection = "exit"
       /\ \E i \in 1..Len(q.ops) :
            /\ q.ops[i].state = "rejected"
            /\ (i > Len(ops) \/ ops[i].state # "rejected")
    THEN "exited"
    ELSE process

Apply(q) ==
    /\ ops' = q.ops
    /\ promises' = q.promises
    /\ calls' = q.calls
    /\ process' = AfterReactions(q)

\* The server.listen callback up to the first await of every resourceLoop:
\* the client is created and each enabled kind has called list() (lines 71-167).
Startup ==
    /\ process = "starting"
    /\ process' = "running"
    /\ phase' = [k \in Kinds |-> IF k \in enabled THEN "listing" ELSE "off"]
    /\ loops' = [k \in Kinds |-> IF k \in enabled THEN [loops[k] EXCEPT !.lists = @ + 1]
                                  ELSE loops[k]]
    /\ UNCHANGED <<enabled, cycle, lastList, watchRV, warned, promises, ops, calls>>
    /\ UNCHANGED <<retry, adapter, client>>

\* k8s(k8sConfig) rejects: catch, process.exit(1) (lines 73, 175-177).
StartupFail ==
    /\ process = "starting"
    /\ process' = "exited"
    /\ UNCHANGED <<enabled, phase, cycle, lastList, watchRV, warned, promises, ops, calls, loops>>
    /\ UNCHANGED <<retry, adapter, client>>

\* list() returns: enqueue an update per item, open the watch (lines 92-106).
ListDone(k, rv, names) ==
    /\ process = "running"
    /\ phase[k] = "listing"
    /\ rv >= lastList[k].resourceVersion
    /\ Len(ops) + Len(names) <= MaxOps
    /\ LET list == [resourceVersion |-> rv, items |-> Items(Q, names)]
       IN  /\ lastList' = [lastList EXCEPT ![k] = list]
           /\ Apply(then(EnqueueItems(Q, k, list.items, cycle[k] + 1, 1)))
           /\ watchRV' = [watchRV EXCEPT ![k] = WatchFrom(k, list)]
    /\ cycle' = [cycle EXCEPT ![k] = @ + 1]
    /\ phase' = [phase EXCEPT ![k] = "watching"]
    /\ loops' = [loops EXCEPT ![k].lists = @ - 1, ![k].watches = @ + 1]
    /\ UNCHANGED <<enabled, warned>>
    /\ UNCHANGED <<retry, adapter, client>>

\* list() rejects and with it the promise of resourceLoop; the loop of this
\* kind is over. At startup the rejection is logged and thrown again (lines
\* 163-166) and rejects Promise.all, which the listen callback returns from
\* inside its try block without awaiting it (line 173): the catch block with
\* process.exit(1) (lines 174-177) does not run and the promise of the
\* callback, which nobody holds, is rejected. In a restarted loop nobody
\* holds the promise of resourceLoop (line 149). Either way the rejection is
\* an unhandled one.
ListFail(k) ==
    /\ process = "running"
    /\ phase[k] = "listing"
    /\ process' = (IF OnUnhandledRejection = "exit" THEN "exited" ELSE process)
    /\ phase' = [phase EXCEPT ![k] = "stopped"]
    /\ loops' = [loops EXCEPT ![k].lists = @ - 1]
    /\ UNCHANGED <<enabled, cycle, lastList, watchRV, warned, promises, ops, calls>>
    /\ UNCHANGED <<retry, adapter, client>>

\* The 'data' handler (lines 107-145).
WatchData(k, type, name) ==
    /\ process = "running"
    /\ phase[k] = "watching"
    /\ IF NextFor(type) = "none"
       THEN /\ warned[k] < MaxWarn
            /\ warned' = [warned EXCEPT ![k] = @ + 1]
            /\ UNCHANGED <<process, promises, ops, calls>>
       ELSE /\ Len(ops) < MaxOps
            /\ LET resource == Snapshot(Q, 1)
               IN  Apply(then(enqueue(Q, k, name,
                        [type |-> type, obj |-> resource, cycle |-> cycle[k]],
                        EventNext(type, resource))))
            /\ UNCHANGED warned
    /\ UNCHANGED <<enabled, phase, cycle, lastList, watchRV, loops>>
    /\ UNCHANGED <<retry, adapter, client>>

\* The calls of resourceLoop in the 'end' handler of a stream (line 149).
ResourceLoopsOnEnd_Twice(k) == 2

ResourceLoopsOnEnd(k) == 1

\* The 'end' handler: resourceLoop is called again and calls list() (146-150, 92).
WatchEnd(k) ==
    /\ process = "running"
    /\ phase[k] = "watching"
    /\ cycle[k] < MaxCycles
    /\ phase' = [phase EXCEPT ![k] = "listing"]
    /\ promises' = [promises EXCEPT ![k] = LoopQueue(k)]
    /\ loops' = [loops EXCEPT ![k].watches = @ - 1, ![k].lists = @ + ResourceLoopsOnEnd(k)]
    /\ UNCHANGED <<process, enabled, cycle, lastList, watchRV, warned, ops, calls>>
    /\ UNCHANGED <<retry, adapter, client>>

\* ------------------------------ the ResourceClient call of an operation
\* A provider call of the operation fails with a transient network error:
\* retryOnTransientNetworkErrors waits for the retry delay (utils.ts 128-130).
TransientError(i) ==
    /\ process = "running"
    /\ i \in 1..Len(ops)
    /\ ops[i].call = "calling"
    /\ ops' = [ops EXCEPT ![i].call = "delay"]
    /\ UNCHANGED <<process, enabled, phase, cycle, lastList, watchRV, warned, promises, calls,
                   loops>>
    /\ UNCHANGED <<retry, adapter, client>>

\* The delay is over and the provider call is made again (utils.ts 131).
RetryAfterDelay(i) ==
    /\ process = "running"
    /\ i \in 1..Len(ops)
    /\ ops[i].call = "delay"
    /\ ops' = [ops EXCEPT ![i].call = "calling"]
    /\ UNCHANGED <<process, enabled, phase, cycle, lastList, watchRV, warned, promises, calls,
                   loops>>
    /\ UNCHANGED <<retry, adapter, client>>

\* What the promise made by enqueue becomes when next() settles with outcome
\* out ("ok" | "fail"): it follows the promise next returned (line 10).
Outcome_Swallow(out) == "fulfilled"

Outcome(out) == IF out = "ok" THEN "fulfilled" ELSE "rejected"

\* The promise returned by create/update/delete settles; nextPromise follows it
\* and the reactions chained on nextPromise run.
Settle(i, out) ==
    /\ process = "running"
    /\ i \in 1..Len(ops)
    /\ ops[i].call = "calling"
    /\ Apply(then([Q EXCEPT !.ops[i].call = out,
                            !.ops[i].state = Outcome(out),
                            !.ops[i].src = i,
                            !.ops[i].log = LogOperationResult(Outcome(out))]))
    /\ UNCHANGED <<enabled, phase, cycle, lastList, watchRV, warned, loops>>
    /\ UNCHANGED <<retry, adapter, client>>

Succeed(i) == Settle(i, "ok")

Fail(i) == Settle(i, "fail")

\* ---------------------------- src/resources/utils.ts: the retry executor
\* What awsOperation().promise() can settle with: how ("resolve" | "reject")
\* and the fields of the value the code looks at (code, errno, message).
Codes == {"none", "NetworkingError", "AccessDenied"}

Errnos == {"none", "EHOSTUNREACH", "ECONNREFUSED", "ETIMEDOUT"}

Response(how, code, errno, message) ==
    [how |-> how, code |-> code, errno |-> errno, message |-> message]

\* Rejections: an error with a message and any code and errno.
Rejections == {Response("reject", c, e, TRUE) : c \in Codes, e \in Errnos}

\* Resolved values: plain data, two error-shaped responses and one with a
\* code but no message.
Resolutions ==
    {Response("resolve", "none", "none", FALSE),
     Response("resolve", "NetworkingError", "ECONNREFUSED", TRUE),
     Response("resolve", "AccessDenied", "none", TRUE),
     Response("resolve", "AccessDenied", "none", FALSE)}

Responses == Rejections \cup Resolutions

NoResponse == Response("none", "none", "none", FALSE)

\* The responses the provider has in store for the attempts, in order.
Scripts == UNION {[1..n -> Responses] : n \in 1..MaxAttempts}

\* isTransientNetworkError (lines 26-28).
IsTransientNetworkError_AnyNetworkingError(err) == err.code = "NetworkingError"

IsTransientNetworkError_Precedence(err) ==
    (err.code = "NetworkingError" /\ err.errno = "EHOSTUNREACH") \/ err.errno = "ECONNREFUSED"

IsTransientNetworkError(err) ==
    err.code = "NetworkingError" /\ (err.errno = "EHOSTUNREACH" \/ err.errno = "ECONNREFUSED")

\* isAwsError (lines 114-116).
IsAwsError(obj) == obj.code # "none" /\ obj.message

\* Whether the try block throws on this response: the awaited promise was
\* rejected, or it resolved with an AWS error (lines 121-125).
Throws(r) == r.how = "reject" \/ IsAwsError(r)

\* The condition of the catch block for trying again (line 128); attempts is
\* the number of calls of awsOperation so far.
ShouldRetry_Limited(err, attempts) == IsTransientNetworkError(err) /\ attempts < 2

ShouldRetry(err, attempts) == IsTransientNetworkError(err)

\* errorRetryDelay (line 119), in milliseconds.
ErrorRetryDelay == 30000

\* await delay(errorRetryDelay) (line 130): the waits so far and this one.
Delayed_Immediately(waited) == Append(waited, 0)

Delayed(waited) == Append(waited, ErrorRetryDelay)

RetryIdle ==
    [given |-> <<>>, attempts |-> 0, state |-> "idle", waited |-> <<>>, result |-> NoResponse]

\* retryOnTransientNetworkErrors is called and calls awsOperation (lines 118-122).
RetryCall ==
    /\ retry.state = "idle"
    /\ retry.given # <<>>
    /\ retry' = [retry EXCEPT !.state = "calling", !.attempts = 1]
    /\ UNCHANGED <<loopVars, adapter, client>>

\* The promise of awsOperation settles (lines 122-136): the response is
\* returned; or it is thrown and caught, and then either the delay starts or
\* the error is logged and thrown again.
RetryRespond ==
    /\ retry.state = "calling"
    /\ retry.attempts <= Len(retry.given)
    /\ LET r == retry.given[retry.attempts]
       IN  retry' =
            IF ~Throws(r) THEN [retry EXCEPT !.state = "resolved", !.result = r]
            ELSE IF ShouldRetry(r, retry.attempts) THEN [retry EXCEPT !.state = "delay"]
            ELSE [retry EXCEPT !.state = "rejected", !.result = r]
    /\ UNCHANGED <<loopVars, adapter, client>>

\* The delay is over: retryOnTransientNetworkErrors calls itself, which calls
\* awsOperation again, and returns what that call returns (lines 130-131).
RetryDelayOver ==
    /\ retry.state = "delay"
    /\ retry' = [retry EXCEPT !.state = "calling", !.attempts = @ + 1,
                              !.waited = Delayed(@)]
    /\ UNCHANGED <<loopVars, adapter, client>>

\* ----------- src/resources/{s3,sqs,iam}: create, update and delete of a kind
\* The adapters: S3Bucket (s3/s3.ts), SQSQueue (sqs/sqs.ts), IAMRole (iam/iam.ts).
AdapterKinds == {"s3", "sqs", "iam"}

\* The resource definitions create and update are called with.
Defs == {"d1", "d2"}

\* err.name of the errors a client call (after the retry executor) can reject with.
ErrorNames ==
    {"BucketAlreadyOwnedByYou", "NotFound",
     "AWS.SimpleQueueService.QueueDeletedRecently",
     "AWS.SimpleQueueService.NonExistentQueue",
     "NoSuchEntity", "EntityAlreadyExists", "QueueAlreadyExists", "AccessDenied"}

\* The calls of one method are modelled in stages: the first client call
\* (createBucket, createQueue, createRole; headBucket, getQueueUrl, getRole;
\* deleteBucket, getQueueUrl, listRolePolicies), for the update of a bucket or
\* a role the check of the attribute that cannot be changed, and the client
\* calls after that, answered together.
\* Whether the method makes client calls after the first one: SQSQueue.create
\* returns the promise of createQueue (sqs.ts 34-35) and S3Bucket.delete the
\* promise of deleteBucket (s3.ts 188-190).
HasRest_OnlyCreate(a, fn) == fn = "create" /\ a # "sqs"

HasRest(a, fn) == ~(a = "sqs" /\ fn = "create") /\ ~(a = "s3" /\ fn = "delete")

\* Whether the method compares an attribute of the existing resource with the
\* definition before it changes anything: S3Bucket.update the location
\* (s3.ts 117-121), IAMRole.update the path (iam.ts 55-62).
HasCheck(a, fn) == fn = "update" /\ a \in {"s3", "iam"}

\* Whether the client calls of a stage change the resource: createBucket,
\* createQueue, createRole and deleteBucket are first calls; headBucket,
\* getQueueUrl, getRole, listRolePolicies and getBucketLocation only read; the
\* calls after them put, set, delete, attach or detach.
Mutates(a, fn, stage) ==
    CASE stage = "first" -> fn = "create" \/ (a = "s3" /\ fn = "delete")
      [] stage = "check" -> FALSE
      [] OTHER -> TRUE

\* LocationConstraint of getBucketLocation ("none": undefined) and Path of
\* getRole.
Locations == {"none", "us-west-1", "eu-west-1", "EU"}

Paths == {"/", "/svc/"}

\* What the check stage of the adapter can observe.
Observed(a) ==
    CASE a = "s3" -> Locations
      [] a = "iam" -> Paths
      [] OTHER -> {}

\* CreateBucketConfiguration.LocationConstraint of the definition, with the
\* default of the destructuring (s3.ts 108): d1 has no
\* createBucketConfiguration, d2 asks for 'EU'.
LocationRequested(d) == IF d = "d1" THEN "us-west-1" ELSE "EU"

\* location.startsWith('eu-') over Locations.
StartsWithEu(location) == location \in {"eu-west-1"}

\* isCompatibleBucketLocation (s3.ts 90-100).
IsCompatibleBucketLocation(location, locationRequested) ==
    IF location = locationRequested THEN TRUE
    ELSE IF location # "none" /\ locationRequested = "EU" THEN StartsWithEu(location)
    ELSE FALSE

\* attributes.Path of the definition ("none": undefined): d1 has no path, d2
\* asks for '/svc/'.
PathRequested(d) == IF d = "d1" THEN "none" ELSE "/svc/"

\* The condition under which the update goes on after the check (those of
\* s3.ts 118 and iam.ts 60, negated).
CheckPasses(a, d, seen) ==
    CASE a = "s3" -> IsCompatibleBucketLocation(seen, LocationRequested(d))
      [] a = "iam" -> seen = (IF PathRequested(d) = "none" THEN "/" ELSE PathRequested(d))
      [] OTHER -> TRUE

\* Whether a rejection of a client call of the method reaches its catch block:
\* S3Bucket awaits every call inside try (s3.ts 41-69, 102-169); so do
\* SQSQueue.update (sqs.ts 56-57) and IAMRole.update (iam.ts 55-126).
\* SQSQueue.create returns the promise of createQueue from inside try without
\* awaiting it (sqs.ts 34-35), so its rejection settles the promise of create
\* and the catch block does not run; IAMRole.create has no try (iam.ts 28-43),
\* and no delete has one (s3.ts 188-190, sqs.ts 90-94, iam.ts 149-165).
\* A promise that update returns from inside try without awaiting it
\* (stage "return": iam.ts 131) bypasses the catch block in the same way.
Caught(a, fn, stage) == fn # "delete" /\ (a = "s3" \/ fn = "update") /\ stage # "return"

\* What the catch block of the method does with the error (err.name):
\* "update" / "create": return this.update / this.create with the definition;
\* "retry": wait and return this.create; "wrap": throw a new Error;
\* "throw": throw err.
Catch_Rethrow(a, fn, e) == "throw"

Catch_UpdateCreates(a, fn, e) ==
    CASE fn = "update" -> "create"
      [] a = "s3" /\ fn = "create" /\ e = "BucketAlreadyOwnedByYou" -> "update"
      [] OTHER -> "throw"

Catch(a, fn, e) ==
    CASE a = "s3" /\ fn = "create" /\ e = "BucketAlreadyOwnedByYou" -> "update"
      [] a = "s3" /\ fn = "update" /\ e = "NotFound" -> "create"
      [] a = "sqs" /\ fn = "create" /\ e = "AWS.SimpleQueueService.QueueDeletedRecently" -> "retry"
      [] a = "sqs" /\ fn = "update" /\ e = "AWS.SimpleQueueService.NonExistentQueue" -> "create"
      [] a = "iam" /\ fn = "update" /\ e = "NoSuchEntity" -> "create"
      [] a = "iam" /\ fn = "update" /\ e # "NoSuchEntity" -> "wrap"
      [] OTHER -> "throw"

\* What the method does when a client call of a stage rejects, or when the
\* method throws: what its catch block does, or the rejection of its promise
\* where no catch block sees the error.
OnRejection_Recreate(a, fn, stage, e) ==
    IF fn = "delete" THEN "create"
    ELSE IF Caught(a, fn, stage) THEN Catch(a, fn, e) ELSE "throw"

OnRejection(a, fn, stage, e) ==
    IF Caught(a, fn, stage) THEN Catch(a, fn, e) ELSE "throw"

\* retryDelay of SQSQueue.create (sqs.ts 38), in milliseconds.
SqsRetryDelay == 30000

\* One call of create, update or delete: its argument, the frame that called
\* it (from, 0: the caller of the adapter), where it is (pc: "first" | "check" |
\* "rest" | "fallback" | "done"), the stages whose client calls it has issued,
\* the answer to its first client call, what its check saw, the step of the
\* calls after the check it is at, those of these calls that are in flight
\* (flying), those that rejected without anything having observed the
\* rejection so far (rejected: pairs of call and error name), the delays it
\* waited, and how its promise settled: out ("ok" | "err"), err (the name of
\* the error) and res (the frame whose return or throw statement it settled with).
NewFrame(fn, arg, from) ==
    [fn |-> fn, arg |-> arg, from |-> from, pc |-> "first", issued |-> <<"first">>,
     first |-> "none", seen |-> "unseen", step |-> 0, flying |-> {}, rejected |-> {},
     waited |-> <<>>, out |-> "none", err |-> "none", res |-> 0]

\* Whether the definition gives the optional attributes of the resource (for
\* a bucket: acl, policy, public access block, encryption, versioning,
\* lifecycle and tags; for a queue: any attribute): d1 gives none, d2 all.
GivesOptional(d) == d = "d2"

\* The client calls of S3Bucket.create after createBucket, in the order of
\* the statements (s3.ts 48-68). loggingParams is never missing:
\* translateLoggingConfiguration returns a request for every definition
\* (s3/kubernetes-to-aws.ts 136-155).
S3CreateCalls(d) ==
    IF GivesOptional(d)
    THEN <<"putBucketPolicy", "putBucketLogging", "putPublicAccessBlock",
           "putBucketEncryption", "putVersioningConfiguration",
           "putLifecycleConfiguration", "putTagging">>
    ELSE <<"putBucketLogging">>

\* The client calls of S3Bucket.update after the check of the location, in
\* the order of the statements (s3.ts 130-167).
S3UpdateCalls(d) ==
    IF GivesOptional(d)
    THEN <<"putBucketAcl", "putBucketPolicy", "putBucketLogging", "putPublicAccessBlock",
           "putBucketEncryption", "putVersioningConfiguration",
           "putLifecycleConfiguration", "putTagging">>
    ELSE <<"deleteBucketPolicy", "putBucketLogging", "deletePublicAccessBlock",
           "deleteBucketEncryption", "putVersioningConfiguration",
           "deleteLifecycleConfiguration", "putTagging">>

S3Calls(fn, d) ==
    CASE fn = "create" -> S3CreateCalls(d)
      [] fn = "update" -> S3UpdateCalls(d)
      [] OTHER -> <<>>

\* A step of a method: the client calls it starts, the calls whose promises
\* it then waits for (in the order of the array given to Promise.all), and
\* how: "await" (await inside the method) or "return" (the method returns the
\* promise). A call that no step waits for is started and left alone.
Awaited(c) == [start |-> {c}, wait |-> <<c>>, how |-> "await"]

\* All calls of a bucket method started together and awaited with Promise.all.
RestPlan_Parallel(a, fn, d) ==
    IF a = "s3" /\ S3Calls(fn, d) # <<>>
    THEN <<[start |-> {S3Calls(fn, d)[i] : i \in 1..Len(S3Calls(fn, d))},
            wait |-> S3Calls(fn, d), how |-> "await"]>>
    ELSE <<>>

\* The steps of a method after its first call and its check.
\*   S3Bucket.create, update: every call awaited by itself (s3.ts 48-68, 130-167).
\*   SQSQueue.update: await getQueueAttributes (sqs.ts 58); without attributes
\*     return {} (60-69), else return this.sqsClient.setQueueAttributes(...)
\*     (71), which starts the call and returns undefined (sqs/aws.ts 64-70).
\*   SQSQueue.delete: return this.sqsClient.deleteQueue(...) (sqs.ts 93).
\*   IAMRole.create: putRolePolicy, attachRolePolicy and tagRole are started,
\*     Promise.all is given the two arrays and the promise of tagRole
\*     (iam.ts 32-42), so it waits for tagRole only.
\*   IAMRole.update: await listRolePolicies (69); deleteRolePolicy and
\*     putRolePolicy are started (81-91) before await listAttachedRolePolicies
\*     (94); detachRolePolicy and attachRolePolicy are started (98-106) and
\*     await Promise.all of the four (108-113); updateRoleDescription and
\*     updateAssumeRolePolicy are started (114-125), await tagRole (127-129),
\*     return Promise.all(updatePromises) (131).
\*   IAMRole.delete (after listRolePolicies): deleteRolePolicy is started
\*     (153-155), await listAttachedRolePolicies (157), detachRolePolicy is
\*     started (158-159), await Promise.all of both (160-163); deleteRole is
\*     started and neither awaited nor returned (164).
RestPlan(a, fn, d) ==
    CASE a = "s3" ->
            [i \in 1..Len(S3Calls(fn, d)) |-> Awaited(S3Calls(fn, d)[i])]
      [] a = "sqs" /\ fn = "update" ->
            IF GivesOptional(d)
            THEN <<Awaited("getQueueAttributes"),
                   [start |-> {"setQueueAttributes"}, wait |-> <<>>, how |-> "await"]>>
            ELSE <<Awaited("getQueueAttributes")>>
      [] a = "sqs" /\ fn = "delete" ->
            <<[start |-> {"deleteQueue"}, wait |-> <<"deleteQueue">>, how |-> "return"]>>
      [] a = "iam" /\ fn = "create" ->
            <<[start |-> {"putRolePolicy", "attachRolePolicy", "tagRole"},
               wait |-> <<"tagRole">>, how |-> "return"]>>
      [] a = "iam" /\ fn = "update" ->
            <<Awaited("listRolePolicies"),
              [start |-> {"deleteRolePolicy", "putRolePolicy", "listAttachedRolePolicies"},
               wait |-> <<"listAttachedRolePolicies">>, how |-> "await"],
              [start |-> {"detachRolePolicy", "attachRolePolicy"},
               wait |-> <<"deleteRolePolicy", "putRolePolicy",
                          "detachRolePolicy", "attachRolePolicy">>, how |-> "await"],
              [start |-> {"updateRoleDescription", "updateAssumeRolePolicy", "tagRole"},
               wait |-> <<"tagRole">>, how |-> "await"],
              [start |-> {},
               wait |-> <<"updateRoleDescription", "updateAssumeRolePolicy">>,
               how |-> "return"]>>
      [] a = "iam" /\ fn = "delete" ->
            <<[start |-> {"deleteRolePolicy", "listAttachedRolePolicies"},
               wait |-> <<"listAttachedRolePolicies">>, how |-> "await"],
              [start |-> {"detachRolePolicy"},
               wait |-> <<"deleteRolePolicy", "detachRolePolicy">>, how |-> "await"],
              [start |-> {"deleteRole"}, wait |-> <<>>, how |-> "await"]>>
      [] OTHER -> <<>>

\* The definition a fallback passes on: the one the method was called with
\* (s3.ts 73, 175; sqs.ts 41, 77; iam.ts 136).
FallbackArg_Other(F) == CHOOSE d \in Defs : d # F.arg

FallbackArg(F) == F.arg

\* The method of frame f settles; a caller that returned the promise of this
\* call (return this.update(...), return this.create(...)) settles with it.
RECURSIVE Return(_, _, _, _, _)
Return(frames, f, out, err, res) ==
    LET done == [frames EXCEPT ![f].pc = "done", ![f].out = out,
                               ![f].err = err, ![f].res = res]
    IN  IF frames[f].from = 0 THEN done
        ELSE Return(done, frames[f].from, out, err, res)

\* The method of frame f calls fn of the same adapter and returns its promise.
Fallback(frames, f, fn, waited) ==
    Append([frames EXCEPT ![f].pc = "fallback", ![f].waited = @ \o waited],
           NewFrame(fn, FallbackArg(frames[f]), f))

\* The method of frame f sees the error e at a stage: its catch block falls
\* back, wraps the error or throws it again, or its promise rejects with it.
Throw(a, frames, f, stage, e) ==
    LET c == OnRejection(a, frames[f].fn, stage, e)
    IN  CASE c \in {"create", "update"} -> Fallback(frames, f, c, <<>>)
          [] c = "retry" -> Fallback(frames, f, "create", <<SqsRetryDelay>>)
          [] c = "wrap" -> Return(frames, f, "err", "Error", f)
          [] OTHER -> Return(frames, f, "err", e, f)

\* The method of frame f reaches step i of its plan and starts the calls of it.
Start(frames, f, i, plan) ==
    [frames EXCEPT ![f].step = i, ![f].flying = @ \cup plan[i].start]

\* The method of frame f goes on as far as it can: a rejected promise among
\* those it waits for is its error (the first of them in the order of the
\* array); while one of them is pending it waits; otherwise it goes to the
\* next step, and after the last step it returns.
RECURSIVE Advance(_, _, _)
Advance(a, frames, f) ==
    LET F == frames[f]
        plan == RestPlan(a, F.fn, F.arg)
    IN  IF F.step = 0
        THEN IF plan = <<>> THEN Return(frames, f, "ok", "none", f)
             ELSE Advance(a, Start(frames, f, 1, plan), f)
        ELSE LET S == plan[F.step]
                 R == {i \in 1..Len(S.wait) : \E r \in F.rejected : r[1] = S.wait[i]}
             IN  IF R # {}
                 THEN LET i == CHOOSE x \in R : \A y \in R : x <= y
                          r == CHOOSE x \in F.rejected : x[1] = S.wait[i]
                      IN  Throw(a, [frames EXCEPT ![f].rejected = @ \ {r}], f,
                                IF S.how = "return" THEN "return" ELSE "rest", r[2])
                 ELSE IF \E i \in 1..Len(S.wait) : S.wait[i] \in F.flying
                 THEN frames
                 ELSE IF F.step = Len(plan)
                 THEN Return(frames, f, "ok", "none", f)
                 ELSE Advance(a, Start(frames, f, F.step + 1, plan), f)

\* The client answers call c of frame f: the call is no longer in flight, a
\* rejection is held by its promise; the method goes on if it is running.
Answered(a, frames, f, c, ans) ==
    LET got == [frames EXCEPT ![f].flying = @ \ {c},
                              ![f].rejected = IF ans = "ok" THEN @ ELSE @ \cup {<<c, ans>>}]
    IN  IF got[f].pc = "rest" THEN Advance(a, got, f) ELSE got

\* The client answers the first call or the check of the innermost method:
\* "ok", the name of an error, or in the check stage the attribute of the
\* resource; a check that does not pass throws a new Error (s3.ts 120,
\* iam.ts 61). After them the method starts on its further steps.
AnswerTo(a, frames, ans) ==
    LET f == Len(frames)
        F == frames[f]
        seen == CASE F.pc = "first" -> [frames EXCEPT ![f].first = ans]
                  [] F.pc = "check" -> [frames EXCEPT ![f].seen = ans]
                  [] OTHER -> frames
        e == IF F.pc = "check" /\ ans \in Observed(a)
             THEN IF CheckPasses(a, F.arg, ans) THEN "ok" ELSE "Error"
             ELSE ans
        next == CASE F.pc = "first" /\ HasCheck(a, F.fn) -> "check"
                  [] F.pc \in {"first", "check"} /\ HasRest(a, F.fn) -> "rest"
                  [] OTHER -> "done"
    IN  IF e = "ok"
        THEN IF next = "done"
             THEN Return(seen, f, "ok", "none", f)
             ELSE LET entered == [seen EXCEPT ![f].pc = next, ![f].issued = Append(@, next)]
                  IN  IF next = "rest" THEN Advance(a, entered, f) ELSE entered
        ELSE Throw(a, seen, f, F.pc, e)

AdapterIdle == [kind |-> "none", frames |-> <<>>]

\* The loop calls create, update or delete of an adapter with a definition.
AdapterInvoke(a, fn, d) ==
    /\ adapter.kind = "none"
    /\ adapter' = [kind |-> a, frames |-> <<NewFrame(fn, d, 0)>>]
    /\ UNCHANGED <<loopVars, retry, client>>

\* The first client call of the innermost method is answered.
AdapterFirst(ans) ==
    /\ adapter.frames # <<>>
    /\ adapter.frames[Len(adapter.frames)].pc = "first"
    /\ Len(AnswerTo(adapter.kind, adapter.frames, ans)) <= MaxDepth
    /\ adapter' = [adapter EXCEPT !.frames = AnswerTo(adapter.kind, @, ans)]
    /\ UNCHANGED <<loopVars, retry, client>>

\* The check of the update: getBucketLocation answers with a location or
\* rejects (s3.ts 117); the path is in the answer of getRole (iam.ts 55-60).
AdapterCheck(ans) ==
    /\ adapter.frames # <<>>
    /\ adapter.frames[Len(adapter.frames)].pc = "check"
    /\ ans \in Observed(adapter.kind) \/ (adapter.kind = "s3" /\ ans \in ErrorNames)
    /\ Len(AnswerTo(adapter.kind, adapter.frames, ans)) <= MaxDepth
    /\ adapter' = [adapter EXCEPT !.frames = AnswerTo(adapter.kind, @, ans)]
    /\ UNCHANGED <<loopVars, retry, client>>

\* The answers to a call nothing waits for: it succeeds, or it fails for good.
FloatAnswers == {"ok", "AccessDenied"}

\* Whether the method of frame F waits for call c in the step it is at.
WaitsFor(a, F, c) ==
    /\ F.pc = "rest"
    /\ \E i \in 1..Len(RestPlan(a, F.fn, F.arg)[F.step].wait) :
            RestPlan(a, F.fn, F.arg)[F.step].wait[i] = c

\* A client call of the innermost method, in flight in one of its steps, is
\* answered: with any error if the method waits for it, else as a call
\* nothing waits for.
AdapterRest(c, ans) ==
    /\ adapter.frames # <<>>
    /\ adapter.frames[Len(adapter.frames)].pc = "rest"
    /\ c \in adapter.frames[Len(adapter.frames)].flying
    /\ ans \in FloatAnswers \/ WaitsFor(adapter.kind, adapter.frames[Len(adapter.frames)], c)
    /\ Len(Answered(adapter.kind, adapter.frames, Len(adapter.frames), c, ans)) <= MaxDepth
    /\ adapter' = [adapter EXCEPT !.frames = Answered(adapter.kind, @, Len(@), c, ans)]
    /\ UNCHANGED <<loopVars, retry, client>>

\* A client call that a method left in flight when it returned, threw or fell
\* back is answered; nothing waits for it.
AdapterFloat(f, c, ans) ==
    /\ f \in 1..Len(adapter.frames)
    /\ adapter.frames[f].pc \in {"fallback", "done"}
    /\ c \in adapter.frames[f].flying
    /\ adapter' = [adapter EXCEPT !.frames = Answered(adapter.kind, @, f, c, ans)]
    /\ UNCHANGED <<loopVars, retry, client>>

\* ------ src/resources/s3/aws.ts, s3/s3.ts, iam/aws.ts: helpers of the clients
\* Status of a bucket's versioning ("none": versioning was never set) and of
\* a VersioningConfiguration ("none": no configuration given).
VersioningStatuses == {"Enabled", "Suspended"}

\* LoggingEnabled of a bucket and of the logging params of a definition.
NoLogging == [TargetBucket |-> "none", TargetPrefix |-> "none"]

Loggings ==
    {NoLogging} \cup [TargetBucket : {"bucket", "updated-bucket"},
                      TargetPrefix : {"prefix", "updated-prefix"}]

\* Tags of a role: lists of at most MaxTags tags with different keys.
MaxTags == 2

TagKeys == {"foo", "keep"}

TagValues == {"bar", "baz"}

Tags == [Key : TagKeys, Value : TagValues]

TagLists ==
    {s \in UNION {[1..n -> Tags] : n \in 0..MaxTags} :
        \A i, j \in 1..Len(s) : s[i].Key = s[j].Key => i = j}

\* What find returns when no element matches.
NoTag == [Key |-> "none", Value |-> "none"]

\* list.find(t => t.Key === key).
FindTag(list, key) ==
    LET I == {i \in 1..Len(list) : list[i].Key = key}
    IN  IF I = {} THEN NoTag ELSE list[CHOOSE i \in I : \A j \in I : i <= j]

\* tagKeysToRemove of updateRoleTags (iam/aws.ts 79-81).
TagKeysToRemove(existingTags, tags) ==
    SelectSeq([i \in 1..Len(existingTags) |-> existingTags[i].Key],
              LAMBDA tagKey : FindTag(tags, tagKey) = NoTag)

\* tagsToAdd of updateRoleTags (iam/aws.ts 87-93).
TagsToAdd_NewKeys(existingTags, tags) ==
    SelectSeq(tags, LAMBDA tag : FindTag(existingTags, tag.Key) = NoTag)

TagsToAdd(existingTags, tags) ==
    SelectSeq(tags, LAMBDA tag :
        LET existingTag == FindTag(existingTags, tag.Key)
        IN  IF existingTag # NoTag THEN existingTag.Value # tag.Value ELSE TRUE)

\* The tags of a role after IAM has served UntagRole and TagRole.
Untagged(roleTags, tagKeys) ==
    SelectSeq(roleTags, LAMBDA t : \A i \in 1..Len(tagKeys) : tagKeys[i] # t.Key)

Tagged(roleTags, tags) ==
    SelectSeq(roleTags, LAMBDA t : FindTag(tags, t.Key) = NoTag) \o tags

\* The VersioningConfiguration putVersioningConfiguration puts for the given
\* params on a bucket with the given status, "none": it puts nothing
\* (s3/aws.ts 83-96).
VersioningToPut_Keep(params, status) == IF params = "none" THEN status ELSE params

VersioningToPut(params, status) ==
    IF params = "none"
    THEN IF status = "none" THEN "none" ELSE "Suspended"
    ELSE params

\* Whether S3Bucket.update calls putBucketLogging for the logging params of
\* the definition (s3.ts 142-143: always).
CallsPutBucketLogging(loggingParams) == TRUE

\* BucketLoggingStatus of the request of putBucketLogging (s3/aws.ts 57).
BucketLoggingStatus(loggingStatus) == loggingStatus

\* A request sent to the provider.
Request(call, arg) == [call |-> call, arg |-> arg]

\* The bucket and the role at the provider, and no call of a helper.
ClientIdle ==
    [versioning |-> "none", logging |-> NoLogging, roleTags |-> <<>>, truncated |-> FALSE,
     role |-> "none", rolePolicies |-> {}, flying |-> {},
     op |-> "none", pc |-> "idle", arg |-> "none", before |-> "none",
     listed |-> <<>>, sent |-> <<>>, out |-> "none"]

\* A helper is called: what it keeps until it settles.
Called(op, arg, pc, requests) ==
    [client EXCEPT !.op = op, !.arg = arg, !.pc = pc, !.sent = requests,
                   !.listed = <<>>, !.out = "none",
                   !.before = [versioning |-> client.versioning,
                               logging |-> client.logging,
                               roleTags |-> client.roleTags,
                               rolePolicies |-> client.rolePolicies]]

\* S3Client.putVersioningConfiguration is called (s3/aws.ts 78-104): without
\* params it asks for the status of the bucket, with params it puts them.
putVersioningConfiguration(params) ==
    /\ client.pc \in {"idle", "done"}
    /\ client' =
        IF params = "none"
        THEN Called("putVersioningConfiguration", params, "getBucketVersioning",
                    <<Request("GetBucketVersioning", "none")>>)
        ELSE Called("putVersioningConfiguration", params, "putBucketVersioning",
                    <<Request("PutBucketVersioning", VersioningToPut(params, "none"))>>)
    /\ UNCHANGED <<loopVars, retry, adapter>>

\* getBucketVersioning answers with the status of the bucket (s3/aws.ts 85-95).
GetBucketVersioningAnswered ==
    /\ client.pc = "getBucketVersioning"
    /\ LET put == VersioningToPut(client.arg, client.versioning)
       IN  client' =
            IF put = "none"
            THEN [client EXCEPT !.pc = "done", !.out = "ok"]
            ELSE [client EXCEPT !.pc = "putBucketVersioning",
                                !.sent = Append(@, Request("PutBucketVersioning", put))]
    /\ UNCHANGED <<loopVars, retry, adapter>>

\* S3 serves PutBucketVersioning (s3/aws.ts 98-103).
PutBucketVersioningAnswered ==
    /\ client.pc = "putBucketVersioning"
    /\ client' = [client EXCEPT !.pc = "done", !.out = "ok",
                                !.versioning = client.sent[Len(client.sent)].arg]
    /\ UNCHANGED <<loopVars, retry, adapter>>

\* The logging step of S3Bucket.update (s3.ts 142-143, s3/aws.ts 54-60).
updateLogging(loggingParams) ==
    /\ client.pc \in {"idle", "done"}
    /\ client' =
        IF CallsPutBucketLogging(loggingParams)
        THEN Called("updateLogging", loggingParams, "putBucketLogging",
                    <<Request("PutBucketLogging", BucketLoggingStatus(loggingParams))>>)
        ELSE [Called("updateLogging", loggingParams, "done", <<>>) EXCEPT !.out = "ok"]
    /\ UNCHANGED <<loopVars, retry, adapter>>

\* S3 serves PutBucketLogging.
PutBucketLoggingAnswered ==
    /\ client.pc = "putBucketLogging"
    /\ client' = [client EXCEPT !.pc = "done", !.out = "ok",
                                !.logging = client.sent[Len(client.sent)].arg]
    /\ UNCHANGED <<loopVars, retry, adapter>>

\* What updateRoleTags does once the tags are listed and the keys to remove,
\* if any, are removed (iam/aws.ts 87-97).
AddTags(c) ==
    LET tagsToAdd == TagsToAdd(c.listed, c.arg)
    IN  IF Len(tagsToAdd) > 0
        THEN [c EXCEPT !.pc = "tagRole", !.sent = Append(@, Request("TagRole", tagsToAdd))]
        ELSE [c EXCEPT !.pc = "done", !.out = "ok"]

\* IAMClient.updateRoleTags is called (iam/aws.ts 73-74).
updateRoleTags(tags) ==
    /\ client.pc \in {"idle", "done"}
    /\ client' = Called("updateRoleTags", tags, "listRoleTags",
                        <<Request("ListRoleTags", "none")>>)
    /\ UNCHANGED <<loopVars, retry, adapter>>

\* listRoleTags answers with the tags of the role (iam/aws.ts 74-86).
ListRoleTagsAnswered ==
    /\ client.pc = "listRoleTags"
    /\ LET existingTags == client.roleTags
           tagKeysToRemove == TagKeysToRemove(existingTags, client.arg)
           listed == [client EXCEPT !.listed = existingTags]
       IN  client' =
            IF client.truncated
            THEN [listed EXCEPT !.pc = "done", !.out = "err"]
            ELSE IF Len(tagKeysToRemove) > 0
            THEN [listed EXCEPT !.pc = "untagRole",
                                !.sent = Append(@, Request("UntagRole", tagKeysToRemove))]
            ELSE AddTags(listed)
    /\ UNCHANGED <<loopVars, retry, adapter>>

\* IAM serves UntagRole (iam/aws.ts 84).
UntagRoleAnswered ==
    /\ client.pc = "untagRole"
    /\ client' = AddTags([client EXCEPT
                    !.roleTags = Untagged(@, client.sent[Len(client.sent)].arg)])
    /\ UNCHANGED <<loopVars, retry, adapter>>

\* IAM serves TagRole (iam/aws.ts 96).
TagRoleAnswered ==
    /\ client.pc = "tagRole"
    /\ client' = [client EXCEPT !.pc = "done", !.out = "ok",
                    !.roleTags = Tagged(@, client.sent[Len(client.sent)].arg)]
    /\ UNCHANGED <<loopVars, retry, adapter>>

\* ---------------------- src/resources/iam/iam.ts: the inline policies of a role
\* The name of the role and the policy documents of the definitions.
RoleName == "role"

PolicyDocs == {"p1", "p2"}

\* spec.policies: lists of at most MaxPolicies documents, repetitions included.
MaxPolicies == 2

PolicyLists == UNION {[1..n -> PolicyDocs] : n \in 0..MaxPolicies}

\* md5(JSON.stringify(policy)) over the documents of the model, which have
\* different hashes; h3 is the hash of a document no definition has.
Md5(doc) ==
    CASE doc = "p1" -> "h1"
      [] doc = "p2" -> "h2"
      [] OTHER -> "h3"

\* IAMRole.getRolePolicyName (iam.ts 167-169): `${roleName}-${md5(...)}`.
getRolePolicyName(roleName, policy) == <<roleName, Md5(policy)>>

\* The names an inline policy of the role can have.
PolicyNames == {<<RoleName, h>> : h \in {"h1", "h2", "h3"}}

\* PolicyNames of the response of ListRolePolicies for a set of names.
NameRank(name) ==
    CASE name[2] = "h1" -> 1
      [] name[2] = "h2" -> 2
      [] OTHER -> 3

RECURSIVE Listing(_)
Listing(S) ==
    IF S = {} THEN <<>>
    ELSE LET name == CHOOSE x \in S : \A y \in S : NameRank(x) <= NameRank(y)
         IN  <<name>> \o Listing(S \ {name})

\* Object.keys of an object built by adding the keys in this order.
RECURSIVE Keys(_)
Keys(s) ==
    IF s = <<>> THEN <<>>
    ELSE LET front == Keys(SubSeq(s, 1, Len(s) - 1))
         IN  IF \E i \in 1..Len(front) : front[i] = s[Len(s)]
             THEN front ELSE Append(front, s[Len(s)])

\* expectedPolicyNames of IAMRole.update (iam.ts 70-79).
ExpectedPolicyNames(roleName, policies) ==
    Keys([i \in 1..Len(policies) |-> getRolePolicyName(roleName, policies[i])])

\* _.difference(array, values).
Difference(array, values) ==
    SelectSeq(array, LAMBDA x : \A i \in 1..Len(values) : values[i] # x)

\* The requests of sent from position n + 1 on.
SentAfter(sent, n) == {i \in 1..Len(sent) : i > n}

\* IAMRole.update is called with a definition that has these policies; it
\* calls getRole (iam.ts 51-55).
updateRolePolicies(policies) ==
    /\ client.pc = "idle"
    /\ client' = Called("IAMRole.update", policies, "getRole",
                        <<Request("GetRole", RoleName)>>)
    /\ UNCHANGED <<loopVars, retry, adapter>>

\* getRole answers: the role exists and update lists its inline policies
\* (iam.ts 69), or it rejects with NoSuchEntity and the catch block returns
\* this.create(role), which calls createRole (iam.ts 134-136, 30).
GetRoleAnswered ==
    /\ client.pc = "getRole"
    /\ client' =
        IF client.role = "exists"
        THEN [client EXCEPT !.pc = "listRolePolicies",
                            !.sent = Append(@, Request("ListRolePolicies", RoleName))]
        ELSE [client EXCEPT !.pc = "createRole",
                            !.sent = Append(@, Request("CreateRole", RoleName))]
    /\ UNCHANGED <<loopVars, retry, adapter>>

\* IAM serves CreateRole; create starts putRolePolicy for every policy of
\* the definition and tagRole, and returns a promise that waits for tagRole
\* only (iam.ts 30-42).
CreateRoleAnswered ==
    /\ client.pc = "createRole"
    /\ LET puts == [i \in 1..Len(client.arg) |->
                        Request("PutRolePolicy", getRolePolicyName(RoleName, client.arg[i]))]
       IN  client' = [client EXCEPT
                !.role = "exists",
                !.pc = "create.tagRole",
                !.sent = @ \o puts \o <<Request("TagRole", RoleName)>>,
                !.flying = {Len(client.sent) + i : i \in 1..Len(puts)}]
    /\ UNCHANGED <<loopVars, retry, adapter>>

\* IAM serves the TagRole of create: create resolves, and update with it.
CreateRoleTagged ==
    /\ client.pc = "create.tagRole"
    /\ client' = [client EXCEPT !.pc = "done", !.out = "ok"]
    /\ UNCHANGED <<loopVars, retry, adapter>>

\* ListRolePolicies answers with a page of names (iam/aws.ts 100-106: the
\* names of the first response, whether it is truncated or not); update
\* starts deleteRolePolicy for the names it does not expect and
\* putRolePolicy for the expected names it has not seen, and waits for all
\* of them (iam.ts 78-91, 108-113).
ListRolePoliciesAnswered(page) ==
    /\ client.pc = "listRolePolicies"
    /\ page \subseteq client.rolePolicies
    /\ IF client.truncated /\ client.rolePolicies # {}
       THEN page # client.rolePolicies
       ELSE page = client.rolePolicies
    /\ LET existingRolePolicyNames == Listing(page)
           expectedPolicyNames == ExpectedPolicyNames(RoleName, client.arg)
           removePolicyNames == Difference(existingRolePolicyNames, expectedPolicyNames)
           addPolicyNames == Difference(expectedPolicyNames, existingRolePolicyNames)
           requests ==
               [i \in 1..Len(removePolicyNames) |->
                    Request("DeleteRolePolicy", removePolicyNames[i])]
               \o [i \in 1..Len(addPolicyNames) |->
                    Request("PutRolePolicy", addPolicyNames[i])]
           started == [client EXCEPT !.listed = existingRolePolicyNames,
                                     !.sent = @ \o requests,
                                     !.flying = SentAfter(client.sent \o requests,
                                                          Len(client.sent))]
       IN  client' = IF requests = <<>>
                     THEN [started EXCEPT !.pc = "done", !.out = "ok"]
                     ELSE [started EXCEPT !.pc = "policies"]
    /\ UNCHANGED <<loopVars, retry, adapter>>

\* The inline policies of the role after IAM has served a request.
Served(rolePolicies, request) ==
    CASE request.call = "PutRolePolicy" -> rolePolicies \cup {request.arg}
      [] request.call = "DeleteRolePolicy" -> rolePolicies \ {request.arg}
      [] OTHER -> rolePolicies

\* IAM answers a PutRolePolicy or DeleteRolePolicy in flight: it serves it,
\* or it rejects it. An update that waits for it rejects with it, and resolves
\* with the last answer; nothing waits for the requests of create.
RolePolicyAnswered(i, ans) ==
    /\ i \in client.flying
    /\ LET got == [client EXCEPT
                    !.flying = @ \ {i},
                    !.rolePolicies = IF ans = "ok" THEN Served(@, client.sent[i]) ELSE @]
       IN  client' =
            IF client.pc # "policies" THEN got
            ELSE IF ans # "ok" THEN [got EXCEPT !.pc = "done", !.out = "err"]
            ELSE IF got.flying = {} THEN [got EXCEPT !.pc = "done", !.out = "ok"]
            ELSE got
    /\ UNCHANGED <<loopVars, retry, adapter>>

\* The request the helper waits for is rejected: the helper rejects.
ClientRejected ==
    /\ client.pc \notin {"idle", "done"}
    /\ client' = [client EXCEPT !.pc = "done", !.out = "err"]
    /\ UNCHANGED <<loopVars, retry, adapter>>

\* ------------------------------------------------------------ specification
\* One kind enabled (--resource-type queues), before the listen callback ran.
\* The loop before the listen callback ran, with these kinds selected.
LoopInit(kinds) ==
    /\ process = "starting"
    /\ enabled = kinds
    /\ phase = [k \in Kinds |-> "off"]
    /\ cycle = [k \in Kinds |-> 0]
    /\ lastList = [k \in Kinds |-> [resourceVersion |-> 0, items |-> <<>>]]
    /\ watchRV = [k \in Kinds |-> 0]
    /\ warned = [k \in Kinds |-> 0]
    /\ promises = [k \in Kinds |-> [n \in Names |-> 0]]
    /\ ops = <<>>
    /\ calls = [k \in Kinds |-> [n \in Names |-> <<>>]]
    /\ loops = [k \in Kinds |-> [lists |-> 0, watches |-> 0]]

Init ==
    /\ LoopInit({"queues"})
    /\ retry = RetryIdle
    /\ adapter = AdapterIdle
    /\ client = ClientIdle

Next ==
    \/ Startup
    \/ StartupFail
    \/ \E k \in Kinds, rv \in RVs, names \in NameLists : ListDone(k, rv, names)
    \/ \E k \in Kinds : ListFail(k)
    \/ \E k \in Kinds, type \in EventTypes, name \in Names : WatchData(k, type, name)
    \/ \E k \in Kinds : WatchEnd(k)
    \/ \E i \in 1..MaxOps : TransientError(i)
    \/ \E i \in 1..MaxOps : RetryAfterDelay(i)
    \/ \E i \in 1..MaxOps : Succeed(i)
    \/ \E i \in 1..MaxOps : Fail(i)

Spec == Init /\ [][Next]_vars

\* Two kinds enabled (no --resource-type filter keeps every kind, lines 85-88;
\* two are enough to tell the loops apart): one resourceLoop and one
\* PromisesQueue per kind (lines 153-167).
Init2K ==
    /\ LoopInit({"queues", "roles"})
    /\ retry = RetryIdle
    /\ adapter = AdapterIdle
    /\ client = ClientIdle

\* The watch events of the two-kind runs: one that is dispatched and one that
\* is ignored.
EventTypes2K == {"ADDED", "ERROR"}

Next2K ==
    \/ Startup
    \/ StartupFail
    \/ \E k \in Kinds, names \in NameLists : ListDone(k, 1, names)
    \/ \E k \in Kinds : ListFail(k)
    \/ \E k \in Kinds, type \in EventTypes2K, name \in Names : WatchData(k, type, name)
    \/ \E k \in Kinds : WatchEnd(k)
    \/ \E i \in 1..MaxOps : TransientError(i)
    \/ \E i \in 1..MaxOps : RetryAfterDelay(i)
    \/ \E i \in 1..MaxOps : Succeed(i)
    \/ \E i \in 1..MaxOps : Fail(i)

Spec2K == Init2K /\ [][Next2K]_vars

\* One call of retryOnTransientNetworkErrors against a provider that answers
\* the attempts with any of the scripts.
InitRetry ==
    /\ LoopInit({"queues"})
    /\ retry \in {[RetryIdle EXCEPT !.given = s] : s \in Scripts}
    /\ adapter = AdapterIdle
    /\ client = ClientIdle

NextRetry ==
    \/ RetryCall
    \/ RetryRespond
    \/ RetryDelayOver

SpecRetry == InitRetry /\ [][NextRetry]_vars

\* One call of create, update or delete of an adapter against a provider that
\* answers every client call with success or any of the errors.
\* The client calls of the steps of the methods.
ClientCalls ==
    UNION {UNION {RestPlan(a, fn, d)[i].start : i \in 1..Len(RestPlan(a, fn, d))} :
            a \in AdapterKinds, fn \in {"create", "update", "delete"}, d \in Defs}

InitAdapter ==
    /\ LoopInit({"queues"})
    /\ retry = RetryIdle
    /\ adapter = AdapterIdle
    /\ client = ClientIdle

NextAdapter ==
    \/ \E a \in AdapterKinds, fn \in {"create", "update", "delete"}, d \in Defs :
          AdapterInvoke(a, fn, d)
    \/ \E ans \in {"ok"} \cup ErrorNames : AdapterFirst(ans)
    \/ \E ans \in Locations \cup Paths \cup ErrorNames : AdapterCheck(ans)
    \/ \E c \in ClientCalls, ans \in {"ok"} \cup ErrorNames : AdapterRest(c, ans)
    \/ \E f \in 1..MaxDepth, c \in ClientCalls, ans \in FloatAnswers : AdapterFloat(f, c, ans)

SpecAdapter == InitAdapter /\ [][NextAdapter]_vars

\* Calls of the helpers of the clients, one after the other, on a bucket and a
\* role in any state.
InitClient ==
    /\ LoopInit({"queues"})
    /\ retry = RetryIdle
    /\ adapter = AdapterIdle
    /\ client \in {[ClientIdle EXCEPT !.versioning = v, !.logging = l,
                                      !.roleTags = t, !.truncated = b] :
                    v \in {"none"} \cup VersioningStatuses, l \in Loggings,
                    t \in TagLists, b \in BOOLEAN}

NextClient ==
    \/ \E params \in {"none"} \cup VersioningStatuses : putVersioningConfiguration(params)
    \/ GetBucketVersioningAnswered
    \/ PutBucketVersioningAnswered
    \/ \E loggingParams \in Loggings : updateLogging(loggingParams)
    \/ PutBucketLoggingAnswered
    \/ \E tags \in TagLists : updateRoleTags(tags)
    \/ ListRoleTagsAnswered
    \/ UntagRoleAnswered
    \/ TagRoleAnswered
    \/ ClientRejected

SpecClient == InitClient /\ [][NextClient]_vars

\* One call of IAMRole.update on a role that does not exist, or that exists
\* with any inline policies.
InitPolicies ==
    /\ LoopInit({"roles"})
    /\ retry = RetryIdle
    /\ adapter = AdapterIdle
    /\ client \in {ClientIdle}
                   \cup {[ClientIdle EXCEPT !.role = "exists", !.rolePolicies = S,
                                            !.truncated = b] :
                            S \in SUBSET PolicyNames, b \in BOOLEAN}

\* The positions of the requests of one call of update in sent: GetRole,
\* ListRolePolicies, a DeleteRolePolicy per name of the role and a
\* PutRolePolicy per policy of the definition at most.
SentPositions == 1..(2 + Cardinality(PolicyNames) + MaxPolicies)

NextPolicies ==
    \/ \E policies \in PolicyLists : updateRolePolicies(policies)
    \/ GetRoleAnswered
    \/ CreateRoleAnswered
    \/ CreateRoleTagged
    \/ \E page \in SUBSET PolicyNames : ListRolePoliciesAnswered(page)
    \/ \E i \in SentPositions, ans \in FloatAnswers : RolePolicyAnswered(i, ans)
    \/ ClientRejected

SpecPolicies == InitPolicies /\ [][NextPolicies]_vars

\* =================================================================== claims
SameKey(i, j) == ops[i].type = ops[j].type /\ ops[i].name = ops[j].name

Started(i) == ops[i].call # "none"

Running(i) == ops[i].call \in {"calling", "delay"}

Settled(i) == ops[i].state # "pending"

\* C1: for every key, an operation is started only after the promise of every
\* operation enqueued before it for that key has settled; so no two operations
\* of a key are in flight (called and not yet settled) at the same time.
C1_NoOverlap ==
    \A i, j \in 1..Len(ops) :
        (i < j /\ SameKey(i, j) /\ Started(j)) => (Settled(i) /\ ~Running(i))

\* Two operations of one key were both called, the second after the first ended.
C1_Witness ==
    \E i, j \in 1..Len(ops) :
        i < j /\ SameKey(i, j) /\ ops[i].call = "ok" /\ Running(j)

\* The n-th operation enqueued for the key of operation i is i.
KeyRank(i) == Cardinality({h \in 1..i : SameKey(h, i)})

\* C2: for every key, the calls the ResourceClient receives are the first
\* operations enqueued for the key, in the order in which they were enqueued:
\* the p-th call of a key is the p-th operation enqueued for it.
C2_EnqueueOrder ==
    \A k \in Kinds, n \in Names :
        \A p \in 1..Len(calls[k][n]) :
            LET i == calls[k][n][p].id
            IN  /\ i \in 1..Len(ops)
                /\ ops[i].type = k /\ ops[i].name = n
                /\ KeyRank(i) = p

\* Three operations of one key were called one after another.
C2_Witness ==
    \E k \in Kinds, n \in Names :
        /\ Len(calls[k][n]) = 3
        /\ \A p \in 1..3 : Started(calls[k][n][p].id)

C4_NoFalseDependency ==
    \A j \in 1..Len(ops) :
        /\ (ops[j].state = "pending" /\ ~Started(j)) =>
                \E i \in 1..(j - 1) : SameKey(i, j) /\ ops[i].state = "pending"
        /\ (ops[j].state = "rejected" /\ ~Started(j)) =>
                \E i \in 1..(j - 1) : SameKey(i, j) /\ ops[i].call = "fail"

\* An operation of one name started and completed while an earlier operation of
\* another name of the same queue was waiting in the retry delay, with a third
\* operation pending behind it.
C4_Witness ==
    \E i, j, h \in 1..Len(ops) :
        /\ i < j /\ i < h /\ ops[i].type = ops[j].type /\ ops[i].name # ops[j].name
        /\ ops[i].call = "delay"
        /\ SameKey(i, h) /\ ~Started(h)
        /\ ops[j].call = "ok" /\ ops[j].state = "fulfilled"

OwnOrInherited(j) ==
    IF Started(j)
    THEN /\ ops[j].src = j
         /\ \/ ops[j].call = "ok" /\ ops[j].state = "fulfilled"
            \/ ops[j].call = "fail" /\ ops[j].state = "rejected"
    ELSE /\ ops[j].state = "rejected"
         /\ ops[j].prev # 0
         /\ ops[ops[j].prev].state = "rejected"
         /\ ops[j].src = ops[ops[j].prev].src

ExpectedOp(type) ==
    CASE type = "ADDED" -> "create"
      [] type = "MODIFIED" -> "update"
      [] type = "DELETED" -> "delete"
      [] type = "LIST" -> "update"

\* C6: as long as no operation of a name has failed, the ResourceClient
\* receives for that name one call per event, in the order of the events:
\* create for ADDED, update for MODIFIED, delete for DELETED, each with the
\* object carried by its event.
C6_EventsInOrder ==
    \A k \in Kinds, n \in Names :
        (\A i \in 1..Len(ops) : (ops[i].type = k /\ ops[i].name = n) => ops[i].state # "rejected")
        => \A p \in 1..Len(calls[k][n]) :
               LET c == calls[k][n][p]
               IN  /\ c.id \in 1..Len(ops)
                   /\ ops[c.id].type = k /\ ops[c.id].name = n
                   /\ KeyRank(c.id) = p
                   /\ c.op = ExpectedOp(ops[c.id].event.type)
                   /\ c.arg = ops[c.id].event.obj

\* ADDED, MODIFIED and DELETED of one name were dispatched and all three calls
\* were made and fulfilled: create, update, delete.
C6_Witness ==
    \E k \in Kinds, n \in Names :
        /\ Len(calls[k][n]) = 3
        /\ \A p \in 1..3 : ops[calls[k][n][p].id].state = "fulfilled"
        /\ ops[calls[k][n][1].id].event.type = "ADDED"
        /\ ops[calls[k][n][2].id].event.type = "MODIFIED"
        /\ ops[calls[k][n][3].id].event.type = "DELETED"
        /\ calls[k][n][1].op = "create"
        /\ calls[k][n][2].op = "update"
        /\ calls[k][n][3].op = "delete"

\* C7: a list call that returns enqueues exactly one operation per listed item,
\* in the order of the items: an update of the item, keyed by the item's name,
\* which becomes the tail of that name; nothing else is enqueued.
C7_ListEnqueuesUpdates ==
    [][ \A k \in Kinds :
          (phase[k] = "listing" /\ phase'[k] = "watching") =>
              LET items == lastList'[k].items
              IN  /\ Len(ops') = Len(ops) + Len(items)
                  /\ \A i \in 1..Len(items) :
                        LET o == ops'[Len(ops) + i]
                        IN  /\ o.type = k
                            /\ o.name = items[i].name
                            /\ o.next = [op |-> "update", arg |-> items[i].obj]
                            /\ o.event.type = "LIST"
                            /\ promises'[k][items[i].name] = Len(ops) + i ]_vars

\* A resync listed two items and both updates were enqueued in the second cycle.
C7_Witness ==
    \E k \in Kinds :
        /\ cycle[k] = 2
        /\ Len(lastList[k].items) = 2
        /\ \E i, j \in 1..Len(ops) :
              /\ i < j
              /\ ops[i].event = [type |-> "LIST", obj |-> lastList[k].items[1].obj, cycle |-> 2]
              /\ ops[j].event = [type |-> "LIST", obj |-> lastList[k].items[2].obj, cycle |-> 2]

\* C8: a list-driven update and an event-driven operation of the same name of
\* a kind are serialized by the one queue, also across resyncs: the later
\* enqueued of the two is called only after the earlier one was called and
\* has fulfilled.
C8_ListAndWatchSerialized ==
    \A i, j \in 1..Len(ops) :
        (/\ i < j /\ SameKey(i, j)
         /\ (ops[i].event.type = "LIST") # (ops[j].event.type = "LIST")
         /\ Started(j))
        => (ops[i].call = "ok" /\ ops[i].state = "fulfilled")

\* The update of a resync was called after an event-driven operation of the
\* previous cycle that was in flight when the watch ended.
C8_Witness ==
    \E i, j \in 1..Len(ops) :
        /\ i < j /\ SameKey(i, j)
        /\ ops[i].event.type = "MODIFIED" /\ ops[i].event.cycle = 1
        /\ ops[j].event.type = "LIST" /\ ops[j].event.cycle = 2
        /\ ops[i].call = "ok"
        /\ Started(j)

C10_LoopNeverEnds ==
    \A k \in Kinds :
        (process = "running" /\ cycle[k] >= 1) => phase[k] \in {"listing", "watching"}

\* C11: a watch event of type ERROR or of an unrecognized type enqueues no
\* operation (no promise was ever made for such an event); the step that
\* handles it changes no chain, no operation and no call, and leaves the
\* watch of its kind open on the same resourceVersion in the same cycle; and
\* after it the handler still dispatches the next event of the stream.
C11_IgnoredEventChangesNothing ==
    /\ [](\A i \in 1..Len(ops) :
            ops[i].event.type \in {"LIST", "ADDED", "MODIFIED", "DELETED"})
    /\ [][\A k \in Kinds :
            warned'[k] # warned[k] =>
                /\ ops' = ops /\ promises' = promises /\ calls' = calls
                /\ phase[k] = "watching" /\ phase' = phase
                /\ cycle' = cycle /\ watchRV' = watchRV /\ lastList' = lastList
                /\ process' = process]_vars
    /\ [](\A k \in Kinds :
            (warned[k] > 0 /\ process = "running" /\ phase[k] = "watching"
                /\ Len(ops) < MaxOps)
            => \A type \in {"ADDED", "MODIFIED", "DELETED"}, n \in Names :
                    ENABLED WatchData(k, type, n))

\* An ERROR or unrecognized event was handled in the first watch of the kind
\* while an operation enqueued before it is still in flight; the watch is
\* still open and one more operation can be enqueued.
C11_Witness ==
    /\ warned["queues"] = 1
    /\ cycle["queues"] = 1
    /\ phase["queues"] = "watching"
    /\ Len(ops) = 1
    /\ ops[1].call = "calling"

C13_KindsIndependent ==
    /\ \A j \in 1..Len(ops) :
        /\ ops[j].prev # 0 => (ops[j].prev < j /\ SameKey(ops[j].prev, j))
        /\ (ops[j].state = "pending" /\ ~Started(j)) =>
                \E i \in 1..(j - 1) : SameKey(i, j) /\ ops[i].state = "pending"
        /\ (process = "running" /\ ops[j].call = "calling") => ENABLED Succeed(j)
    /\ \A k \in Kinds, n \in Names :
        promises[k][n] # 0 =>
            (ops[promises[k][n]].type = k /\ ops[promises[k][n]].name = n)
    /\ \A k \in Kinds :
        /\ (process = "running" /\ phase[k] = "listing" /\ lastList[k].resourceVersion <= 1)
                => ENABLED ListDone(k, 1, <<>>)
        /\ (process = "running" /\ phase[k] = "watching" /\ Len(ops) < MaxOps)
                => \A n \in Names : ENABLED WatchData(k, "ADDED", n)

\* An operation of queue r1 is waiting in the retry delay with an operation
\* of the same queue pending behind it, while the operation that the roles
\* loop enqueued after them from its list, for role r1, was called and has
\* succeeded, and the roles loop is watching.
C13_Witness ==
    /\ Len(ops) = 3
    /\ ops[1].type = "queues" /\ ops[1].name = "r1" /\ ops[1].call = "delay"
    /\ ops[2].type = "queues" /\ ops[2].name = "r1" /\ ~Started(2)
    /\ ops[3].type = "roles" /\ ops[3].name = "r1" /\ ops[3].call = "ok"
    /\ ops[3].event.type = "LIST"
    /\ phase["roles"] = "watching"

\* ------------------------------------------------ claims on the retry executor
\* A response that is an error for the caller of the provider: a rejection, or
\* a resolved value that carries an error code and a message.
ErrorResponse(r) == r.how = "reject" \/ (r.how = "resolve" /\ r.code # "none" /\ r.message)

\* The errors the specification calls transient.
TransientResponse(r) ==
    /\ ErrorResponse(r)
    /\ r.code = "NetworkingError"
    /\ r.errno \in {"EHOSTUNREACH", "ECONNREFUSED"}

SuccessResponse(r) == ~ErrorResponse(r)

\* The executor has seen the response to attempt i.
Consumed(i) ==
    i < retry.attempts \/ (i = retry.attempts /\ retry.state \notin {"idle", "calling"})

\* C14 as stated: one transient error followed by M successes is retried M
\* times, with 30 s before each retry, and resolves with a success.
C14_Original ==
    \A M \in 1..(MaxAttempts - 1) :
        (/\ Len(retry.given) = M + 1
         /\ TransientResponse(retry.given[1])
         /\ \A i \in 2..(M + 1) : SuccessResponse(retry.given[i])
         /\ retry.state = "resolved")
        => /\ retry.attempts - 1 = M
           /\ retry.waited = [i \in 1..M |-> 30000]
           /\ SuccessResponse(retry.result)

\* C14 (amended): when the provider answers with M transient errors followed
\* by a success, the executor never rejects, calls the operation at most
\* M + 1 times, waits 30000 ms before every call but the first, and resolves
\* only after exactly M retries, with that success.
C14_RetriesUntilSuccess ==
    \A M \in 0..(MaxAttempts - 1) :
        (/\ M + 1 <= Len(retry.given)
         /\ \A i \in 1..M : TransientResponse(retry.given[i])
         /\ SuccessResponse(retry.given[M + 1]))
        => /\ retry.attempts <= M + 1
           /\ retry.state # "rejected"
           /\ retry.state = "delay" => retry.attempts <= M
           /\ retry.attempts >= 1 => retry.waited = [i \in 1..(retry.attempts - 1) |-> 30000]
           /\ retry.state = "resolved" =>
                (retry.attempts = M + 1 /\ retry.result = retry.given[M + 1])

\* Two transient errors, one rejected and one resolved as an error response,
\* then a success: resolved by the third call after two waits of 30 s.
C14_Witness ==
    /\ retry.state = "resolved"
    /\ retry.attempts = 3
    /\ retry.given[1] = Response("reject", "NetworkingError", "EHOSTUNREACH", TRUE)
    /\ retry.given[2] = Response("resolve", "NetworkingError", "ECONNREFUSED", TRUE)
    /\ retry.result = Response("resolve", "none", "none", FALSE)
    /\ retry.waited = <<30000, 30000>>

\* C15: a non-transient error ends the executor at the attempt it answers: it
\* rejects with that error, makes no further attempt and starts no delay; as
\* the answer to the first attempt it leaves exactly one attempt and no delay.
C15_NonTransientNotRetried ==
    \A i \in 1..Len(retry.given) :
        (Consumed(i) /\ ErrorResponse(retry.given[i]) /\ ~TransientResponse(retry.given[i]))
        => /\ retry.state = "rejected"
           /\ retry.attempts = i
           /\ retry.result = retry.given[i]
           /\ Len(retry.waited) = i - 1

\* A networking error that is not one of the two transient ones was the first
\* answer, with more answers in store: rejected after one attempt, no delay.
C15_Witness ==
    /\ retry.state = "rejected"
    /\ retry.attempts = 1
    /\ retry.waited = <<>>
    /\ Len(retry.given) = MaxAttempts
    /\ retry.given[1] = Response("reject", "NetworkingError", "ETIMEDOUT", TRUE)
    /\ retry.result = retry.given[1]

\* C16: the executor never rejects with a transient error: what it rejects
\* with is the non-transient answer to its last attempt; and after a
\* transient answer, however many came before, it waits and calls again.
C16_NeverRejectsTransient ==
    /\ retry.state = "rejected" =>
            (retry.result = retry.given[retry.attempts] /\ ~TransientResponse(retry.result))
    /\ \A i \in 1..Len(retry.given) :
            (Consumed(i) /\ TransientResponse(retry.given[i]))
            => (i < retry.attempts \/ (retry.state = "delay" /\ ENABLED RetryDelayOver))

\* Every answer in store was a transient error: the executor is in the delay
\* after the last of them, having waited after each one before.
C16_Witness ==
    /\ retry.state = "delay"
    /\ retry.attempts = MaxAttempts
    /\ Len(retry.given) = MaxAttempts
    /\ \A i \in 1..MaxAttempts : TransientResponse(retry.given[i])
    /\ Len(retry.waited) = MaxAttempts - 1

\* C17: isTransientNetworkError is true exactly for code NetworkingError with
\* errno EHOSTUNREACH or ECONNREFUSED, over every combination of code and
\* errno; and the executor retries after an error exactly in these cases.
C17_TransientExactly ==
    /\ \A c \in Codes, e \in Errnos :
            IsTransientNetworkError(Response("reject", c, e, TRUE))
                <=> (c = "NetworkingError" /\ e \in {"EHOSTUNREACH", "ECONNREFUSED"})
    /\ \A i \in 1..Len(retry.given) :
            (Consumed(i) /\ ErrorResponse(retry.given[i]))
            => ((i < retry.attempts \/ retry.state = "delay")
                    <=> (/\ retry.given[i].code = "NetworkingError"
                         /\ retry.given[i].errno \in {"EHOSTUNREACH", "ECONNREFUSED"}))

\* A NetworkingError with EHOSTUNREACH was retried; the next error has errno
\* ECONNREFUSED but another code and was not.
C17_Witness ==
    /\ retry.state = "rejected"
    /\ retry.attempts = 2
    /\ retry.given[1] = Response("reject", "NetworkingError", "EHOSTUNREACH", TRUE)
    /\ retry.given[2] = Response("reject", "AccessDenied", "ECONNREFUSED", TRUE)
    /\ retry.waited = <<30000>>

\* ------------------------------------------------------ claims on the adapters
\* The calls the method of frame f made to create or update.
Callees(f) == {g \in 1..Len(adapter.frames) : adapter.frames[g].from = f}

\* The method of frame f called fn exactly once, with its own definition, and
\* its promise settles as the promise of that call does.
ReturnsOneCallOf(f, fn) ==
    /\ Cardinality(Callees(f)) = 1
    /\ \A g \in Callees(f) :
        /\ adapter.frames[g].fn = fn
        /\ adapter.frames[g].arg = adapter.frames[f].arg
        /\ (adapter.frames[f].pc = "done") = (adapter.frames[g].pc = "done")
        /\ adapter.frames[f].pc # "done" => adapter.frames[f].pc = "fallback"
        /\ adapter.frames[f].out = adapter.frames[g].out
        /\ adapter.frames[f].err = adapter.frames[g].err
        /\ adapter.frames[f].res = adapter.frames[g].res

\* C18 as stated: a create of a queue whose createQueue was answered with
\* QueueDeletedRecently waits a delay shorter than the 30 s of the transient
\* retry and then calls create again.
C18_RetriedAfterShorterDelay ==
    \A f \in 1..Len(adapter.frames) :
        (/\ adapter.kind = "sqs"
         /\ adapter.frames[f].fn = "create"
         /\ adapter.frames[f].first = "AWS.SimpleQueueService.QueueDeletedRecently")
        => /\ Len(adapter.frames[f].waited) = 1
           /\ adapter.frames[f].waited[1] < ErrorRetryDelay
           /\ \E g \in Callees(f) : adapter.frames[g].fn = "create"

\* C19: a call of S3Bucket.create whose createBucket was answered with
\* BucketAlreadyOwnedByYou calls update exactly once, with the definition it
\* was called with, and settles as that call of update settles.
C19_CreateFallsBackToUpdate ==
    \A f \in 1..Len(adapter.frames) :
        (/\ adapter.kind = "s3"
         /\ adapter.frames[f].fn = "create"
         /\ adapter.frames[f].first = "BucketAlreadyOwnedByYou")
        => ReturnsOneCallOf(f, "update")

\* create of a bucket was told the bucket is owned already, called update, and
\* returned the result of update, whose client calls all succeeded.
C19_Witness ==
    /\ adapter.kind = "s3"
    /\ Len(adapter.frames) = 2
    /\ adapter.frames[1].fn = "create" /\ adapter.frames[1].arg = "d2"
    /\ adapter.frames[1].first = "BucketAlreadyOwnedByYou"
    /\ adapter.frames[2].fn = "update" /\ adapter.frames[2].arg = "d2"
    /\ adapter.frames[2].first = "ok"
    /\ adapter.frames[1].pc = "done" /\ adapter.frames[1].out = "ok"
    /\ adapter.frames[1].res = 2

\* The error name by which the provider of an adapter reports a resource as
\* not found.
NotFoundName(a) ==
    CASE a = "s3" -> "NotFound"
      [] a = "sqs" -> "AWS.SimpleQueueService.NonExistentQueue"
      [] a = "iam" -> "NoSuchEntity"
      [] OTHER -> "none"

\* C20: in every adapter, a call of update whose lookup (headBucket,
\* getQueueUrl, getRole) was answered with the adapter's not-found error calls
\* create exactly once, with the definition it was called with, and settles as
\* that call of create settles.
C20_UpdateFallsBackToCreate ==
    \A f \in 1..Len(adapter.frames) :
        (/\ adapter.frames[f].fn = "update"
         /\ adapter.frames[f].first = NotFoundName(adapter.kind))
        => ReturnsOneCallOf(f, "create")

\* update of a role was told the role does not exist, called create, and
\* rejected with the error create was rejected with.
C20_Witness ==
    /\ adapter.kind = "iam"
    /\ Len(adapter.frames) = 2
    /\ adapter.frames[1].fn = "update" /\ adapter.frames[1].arg = "d1"
    /\ adapter.frames[1].first = "NoSuchEntity"
    /\ adapter.frames[2].fn = "create" /\ adapter.frames[2].arg = "d1"
    /\ adapter.frames[2].first = "EntityAlreadyExists"
    /\ adapter.frames[1].pc = "done" /\ adapter.frames[1].out = "err"
    /\ adapter.frames[1].err = "EntityAlreadyExists"
    /\ adapter.frames[1].res = 2

\* -------------------------------------------------- further claims on the loop
\* C24 as stated: when the connection to the watch source cannot be set up at
\* startup the process exits: a kind whose first list call was rejected is
\* found only in a process that has exited.
C24_StartupFailureExits ==
    \A k \in Kinds : (phase[k] = "stopped" /\ cycle[k] = 0) => process = "exited"

\* C29: a rejected promise stays rejected with the same error; from then on
\* the adapter receives no call for its name, and every promise made later for
\* the name is rejected with that error at once, without a call.
C29_ChainStaysRejected ==
    [][\A i \in 1..Len(ops) :
        ops[i].state = "rejected" =>
            /\ ops'[i].state = "rejected"
            /\ ops'[i].src = ops[i].src
            /\ calls'[ops[i].type][ops[i].name] = calls[ops[i].type][ops[i].name]
            /\ \A j \in (Len(ops) + 1)..Len(ops') :
                (ops'[j].type = ops[i].type /\ ops'[j].name = ops[i].name) =>
                    /\ ops'[j].state = "rejected"
                    /\ ops'[j].src = ops[i].src
                    /\ ops'[j].call = "none"
                    /\ ops'[j].log = "error"]_vars

\* An operation failed; the watch ended and the next list returned the same
\* name: the update enqueued for it was rejected with the error of the failed
\* operation, and the adapter has received one call for the name.
C29_Witness ==
    \E i, j \in 1..Len(ops) :
        /\ i < j
        /\ SameKey(i, j)
        /\ ops[i].call = "fail"
        /\ ops[j].event.type = "LIST" /\ ops[j].event.cycle = 2
        /\ ops[j].state = "rejected" /\ ops[j].src = i /\ ops[j].call = "none"
        /\ Len(calls[ops[i].type][ops[i].name]) = 1

\* The promise returned by the most recent enqueue for a name in the queue of
\* a kind (0: none was made).
LatestPromise(k, n) ==
    LET S == {i \in 1..Len(ops) : ops[i].type = k /\ ops[i].name = n}
    IN  IF S = {} THEN 0 ELSE CHOOSE i \in S : \A j \in S : j <= i

\* C30: in every state the entry of a name in the queue of a kind is the
\* promise the most recent enqueue for that name returned, settled or not;
\* and no step removes an entry or sets it back to an older promise.
C30_MapHoldsLatestPromise ==
    /\ [](\A k \in Kinds, n \in Names : promises[k][n] = LatestPromise(k, n))
    /\ [][\A k \in Kinds, n \in Names : promises'[k][n] >= promises[k][n]]_vars

\* Two names have entries after the watch was restarted: the entry of r1 is
\* its second promise, made in the second cycle, and the entry of r2 is still
\* its only promise, which was fulfilled in the first cycle.
C30_Witness ==
    /\ Len(ops) = 3
    /\ cycle["queues"] = 2
    /\ ops[1].name = "r1" /\ ops[3].name = "r1" /\ ops[3].event.cycle = 2
    /\ ops[2].name = "r2" /\ ops[2].state = "fulfilled" /\ ops[2].event.cycle = 1
    /\ promises["queues"]["r1"] = 3
    /\ promises["queues"]["r2"] = 2

\* ---------------------------------------------- further claims on the adapters
\* The error name by which the provider of an adapter reports that the
\* resource to create exists already and belongs to this account.
AlreadyExistsName(a) ==
    CASE a = "s3" -> "BucketAlreadyOwnedByYou"
      [] a = "sqs" -> "QueueAlreadyExists"
      [] a = "iam" -> "EntityAlreadyExists"
      [] OTHER -> "none"

\* C21 as stated: in every adapter a call of create whose creating call was
\* answered with the adapter's already-exists error calls update once with
\* the same definition and settles as that call of update settles.
C21_EveryCreateFallsBack ==
    \A f \in 1..Len(adapter.frames) :
        (/\ adapter.frames[f].fn = "create"
         /\ adapter.frames[f].first = AlreadyExistsName(adapter.kind))
        => ReturnsOneCallOf(f, "update")

\* Whether the method of frame f has issued a client call that changes the
\* resource.
Mutated(f) ==
    \E i \in 1..Len(adapter.frames[f].issued) :
        Mutates(adapter.kind, adapter.frames[f].fn, adapter.frames[f].issued[i])

\* The update of frame f has seen an attribute that differs from the one the
\* definition asks for and that cannot be changed.
ChangeDetected(f) ==
    /\ adapter.frames[f].fn = "update"
    /\ adapter.frames[f].seen \in Observed(adapter.kind)
    /\ ~CheckPasses(adapter.kind, adapter.frames[f].arg, adapter.frames[f].seen)

\* The error of throw new Error(...): a message, no code and no errno.
NewError == Response("reject", "none", "none", TRUE)

\* C22: an update of a bucket or of a role that has seen a location or a path
\* other than the one of the definition has rejected with a new Error thrown
\* by itself, which the retry condition does not accept; it has issued no
\* client call that changes the resource, has waited for no delay and has
\* called neither create nor update.
C22_ImmutableChangeFails ==
    \A f \in 1..Len(adapter.frames) :
        ChangeDetected(f)
        => /\ adapter.frames[f].pc = "done"
           /\ adapter.frames[f].out = "err"
           /\ adapter.frames[f].err = "Error"
           /\ adapter.frames[f].res = f
           /\ ~ShouldRetry(NewError, 1)
           /\ ~Mutated(f)
           /\ adapter.frames[f].waited = <<>>
           /\ Callees(f) = {}

\* update of a role without a path in its definition found the role with the
\* path /svc/ and rejected after getRole, its only client call.
C22_Witness ==
    /\ adapter.kind = "iam"
    /\ Len(adapter.frames) = 1
    /\ adapter.frames[1].fn = "update" /\ adapter.frames[1].arg = "d1"
    /\ adapter.frames[1].first = "ok"
    /\ adapter.frames[1].seen = "/svc/"
    /\ adapter.frames[1].issued = <<"first", "check">>
    /\ adapter.frames[1].pc = "done" /\ adapter.frames[1].out = "err"

\* C23: a call of delete, in every adapter and whatever the client answered,
\* has called neither create nor update and has waited for no delay; it has
\* issued the calls of each of its stages at most once, and when a call was
\* answered with an error its promise is rejected with that error.
C23_DeleteNeverFallsBack ==
    \A f \in 1..Len(adapter.frames) :
        adapter.frames[f].fn = "delete"
        => /\ Callees(f) = {}
           /\ adapter.frames[f].pc \in {"first", "rest", "done"}
           /\ adapter.frames[f].waited = <<>>
           /\ adapter.frames[f].issued \in {<<"first">>, <<"first", "rest">>}
           /\ adapter.frames[f].first \in ErrorNames
              => /\ adapter.frames[f].pc = "done"
                 /\ adapter.frames[f].out = "err"
                 /\ adapter.frames[f].err = adapter.frames[f].first
                 /\ adapter.frames[f].res = f
           /\ adapter.frames[f].out = "err"
              => adapter.frames[f].err \in ErrorNames /\ adapter.frames[f].res = f

\* delete of a queue was told by getQueueUrl that the queue does not exist (the
\* answer on which update calls create) and rejected with that error.
C23_Witness ==
    /\ adapter.kind = "sqs"
    /\ Len(adapter.frames) = 1
    /\ adapter.frames[1].fn = "delete"
    /\ adapter.frames[1].first = "AWS.SimpleQueueService.NonExistentQueue"
    /\ adapter.frames[1].pc = "done" /\ adapter.frames[1].out = "err"
    /\ adapter.frames[1].err = "AWS.SimpleQueueService.NonExistentQueue"

Sent(call) == SelectSeq(client.sent, LAMBDA r : r.call = call)

\* The helper was called and resolved.
Resolved(op) == client.op = op /\ client.pc = "done" /\ client.out = "ok"

\* C26 as stated: the logging step of an update that has resolved has sent
\* PutBucketLogging if and only if the logging params of the definition
\* differ from the logging of the bucket at the call.
C26_PutBucketLoggingIffChanged ==
    Resolved("updateLogging")
    => (Len(Sent("PutBucketLogging")) > 0 <=> client.arg # client.before.logging)

\* C27: a call of putVersioningConfiguration that has resolved has sent no
\* PutBucketVersioning when it had no params and the bucket no status, one
\* with the status Suspended when it had no params and the bucket a status,
\* and one with the status of its params when it had params; the bucket then
\* has the status that was put, or the one it had.
C27_VersioningPut ==
    Resolved("putVersioningConfiguration")
    => /\ (client.arg = "none" /\ client.before.versioning = "none")
          => /\ Sent("PutBucketVersioning") = <<>>
             /\ client.versioning = "none"
       /\ (client.arg = "none" /\ client.before.versioning # "none")
          => /\ Sent("PutBucketVersioning") = <<Request("PutBucketVersioning", "Suspended")>>
             /\ client.versioning = "Suspended"
       /\ client.arg # "none"
          => /\ Sent("PutBucketVersioning") = <<Request("PutBucketVersioning", client.arg)>>
             /\ Sent("GetBucketVersioning") = <<>>
             /\ client.versioning = client.arg

\* putVersioningConfiguration without params found the bucket with versioning
\* enabled and suspended it.
C27_Witness ==
    /\ Resolved("putVersioningConfiguration")
    /\ client.arg = "none"
    /\ client.before.versioning = "Enabled"
    /\ client.versioning = "Suspended"
    /\ Len(client.sent) = 2

\* The elements of a list.
Range(s) == {s[i] : i \in 1..Len(s)}

\* The keys of a list of tags.
KeysOf(s) == {s[i].Key : i \in 1..Len(s)}

\* C28: a call of updateRoleTags that has resolved (the listing was not
\* truncated) has sent UntagRole once, with exactly the keys the role had
\* and tags lacks, or not at all when there is no such key; it has sent
\* TagRole once, with exactly the tags whose key the role lacked or had with
\* another value, or not at all when there is no such tag; and the tags of
\* the role are those of tags.
C28_RoleTagsUpdated ==
    Resolved("updateRoleTags")
    => LET had == client.before.roleTags
           tags == client.arg
           remove == KeysOf(had) \ KeysOf(tags)
           add == Range(tags) \ Range(had)
           untag == Sent("UntagRole")
           tag == Sent("TagRole")
       IN  /\ ~client.truncated
           /\ IF remove = {} THEN untag = <<>>
              ELSE /\ Len(untag) = 1
                   /\ Range(untag[1].arg) = remove
                   /\ Len(untag[1].arg) = Cardinality(remove)
           /\ IF add = {} THEN tag = <<>>
              ELSE /\ Len(tag) = 1
                   /\ Range(tag[1].arg) = add
                   /\ Len(tag[1].arg) = Cardinality(add)
           /\ Range(client.roleTags) = Range(tags)
           /\ Len(client.roleTags) = Len(tags)

\* updateRoleTags with keep=bar and foo=baz on a role tagged foo=bar only sent
\* no UntagRole and one TagRole with both tags, the new key and the new value.
C28_Witness ==
    /\ Resolved("updateRoleTags")
    /\ client.before.roleTags = <<[Key |-> "foo", Value |-> "bar"]>>
    /\ client.arg = <<[Key |-> "keep", Value |-> "bar"], [Key |-> "foo", Value |-> "baz"]>>
    /\ Sent("UntagRole") = <<>>
    /\ Len(Sent("TagRole")) = 1
    /\ Len(client.roleTags) = 2

\* ------------------------------------------------ further claims on the loop
\* Operation i is the promise operation j was chained on, or one further back.
RECURSIVE ChainedAfter(_, _)
ChainedAfter(j, i) ==
    /\ ops[j].prev # 0
    /\ (ops[j].prev = i \/ ChainedAfter(ops[j].prev, i))

\* Operation i was enqueued for an item of the list of a cycle of its kind.
ListDriven(i) == ops[i].event.type = "LIST"

\* Operations i and j were enqueued in the same list+watch cycle of one kind.
SameCycle(i, j) == ops[i].type = ops[j].type /\ ops[i].event.cycle = ops[j].event.cycle

\* C35: within one list+watch cycle of a kind every list-driven update is
\* enqueued before every operation of a watch event of that cycle; for one
\* name the event-driven operation is chained after the list-driven update of
\* the cycle and is not started before that update has settled.
C35_ListBeforeEvents ==
    \A i, j \in 1..Len(ops) :
        (SameCycle(i, j) /\ ListDriven(i) /\ ~ListDriven(j)) =>
            /\ i < j
            /\ SameKey(i, j) => (ChainedAfter(j, i) /\ (Started(j) => Settled(i)))

\* A cycle listed two names and then received an event for the first; the
\* operation of the event was started after the list-driven update of the name.
C35_Witness ==
    \E i, h, j \in 1..Len(ops) :
        /\ SameCycle(i, j) /\ SameCycle(i, h)
        /\ ListDriven(i) /\ ListDriven(h) /\ ops[i].name # ops[h].name
        /\ ~ListDriven(j) /\ SameKey(i, j)
        /\ ops[i].call = "ok" /\ Started(j)

\* C36: the step in which list() returns opens the watch, and no call of the
\* updates it enqueued has returned by then; while the watch is open an event is
\* accepted whatever the state of the list-driven updates, and an operation
\* of an event is held back only by operations of its own name, never by a
\* list-driven update of another name that failed or waits in the retry loop.
C36_WatchDoesNotWait ==
    /\ [](\A k \in Kinds :
            (process = "running" /\ phase[k] = "watching" /\ Len(ops) < MaxOps) =>
                \A n \in Names : ENABLED WatchData(k, "MODIFIED", n))
    /\ [](\A i, j \in 1..Len(ops) :
            (/\ SameCycle(i, j) /\ ListDriven(i) /\ ~ListDriven(j)
             /\ ops[i].name # ops[j].name
             /\ ops[i].call \in {"calling", "delay", "fail"}
             /\ ~Started(j)) =>
                \E h \in 1..(j - 1) : SameKey(h, j) /\ ops[h].state # "fulfilled")
    /\ [][\A k \in Kinds :
            cycle'[k] # cycle[k] =>
                /\ phase'[k] = "watching"
                /\ loops'[k].watches = loops[k].watches + 1
                /\ \A i \in (Len(ops) + 1)..Len(ops') :
                        /\ ops'[i].type = k /\ ops'[i].event.type = "LIST"
                        /\ ops'[i].call \in {"none", "calling"}]_vars

\* The watch is open while the list-driven update of one name waits in the
\* retry delay; an event for another name arrived in the same cycle, and its
\* operation was called and has completed.
C36_Witness ==
    \E i, j \in 1..Len(ops) :
        /\ SameCycle(i, j) /\ ListDriven(i) /\ ~ListDriven(j)
        /\ ops[i].name # ops[j].name
        /\ ops[i].call = "delay"
        /\ phase[ops[i].type] = "watching"
        /\ ops[j].call = "ok" /\ ops[j].state = "fulfilled"

\* C37: per kind at most one list call or watch stream exists at any time: a
\* stream is open exactly while the kind is watching; a list call is made only
\* at startup or by the 'end' handler of the stream, which closes its stream
\* and makes one list call.
C37_OneStreamPerKind ==
    /\ [](\A k \in Kinds :
            /\ loops[k].lists + loops[k].watches <= 1
            /\ loops[k].watches = (IF phase[k] = "watching" THEN 1 ELSE 0)
            /\ loops[k].lists = (IF phase[k] = "listing" THEN 1 ELSE 0))
    /\ [][\A k \in Kinds :
            loops'[k].lists > loops[k].lists =>
                /\ loops'[k].lists = loops[k].lists + 1
                /\ \/ process = "starting"
                   \/ (loops[k].watches = 1 /\ loops'[k].watches = 0)]_vars

\* The stream of the second cycle of a kind is open: the first stream ended
\* and its 'end' handler started the cycle.
C37_Witness ==
    \E k \in Kinds :
        cycle[k] = 2 /\ phase[k] = "watching" /\ loops[k].watches = 1


\* ------------------------------------- claims on the client calls of a method
\* The client calls of the method of frame f that are in flight: its first
\* call or its check while it waits for them, and the calls of its steps.
InFlight(f) ==
    adapter.frames[f].flying \cup
        (IF adapter.frames[f].pc \in {"first", "check"} THEN {adapter.frames[f].pc} ELSE {})

\* C31: a create or update of a bucket has at most one client call in flight,
\* and none once it has returned, thrown or fallen back; it starts a call only
\* when no call of it is in flight; the create makes no call of its steps
\* unless createBucket has succeeded.
C31_S3CallsOneByOne ==
    /\ [](adapter.kind = "s3" =>
            \A f \in 1..Len(adapter.frames) :
                /\ Cardinality(InFlight(f)) <= 1
                /\ adapter.frames[f].pc \in {"fallback", "done"} => InFlight(f) = {}
                /\ (adapter.frames[f].fn = "create" /\ adapter.frames[f].step > 0)
                        => adapter.frames[f].first = "ok")
    /\ [][adapter.kind = "s3" =>
            \A f \in 1..Len(adapter.frames) :
                LET started == adapter'.frames[f].flying \ adapter.frames[f].flying
                IN  started # {} =>
                        /\ Cardinality(started) = 1
                        /\ adapter'.frames[f].flying = started
                        /\ adapter.frames[f].pc = "rest" => adapter.frames[f].flying # {}]_vars

\* The create of a bucket with every optional attribute waits for its third
\* call after createBucket; the update it was called from fell back to it.
C31_Witness ==
    /\ adapter.kind = "s3"
    /\ Len(adapter.frames) = 2
    /\ adapter.frames[1].fn = "update" /\ adapter.frames[1].pc = "fallback"
    /\ adapter.frames[2].fn = "create" /\ adapter.frames[2].pc = "rest"
    /\ adapter.frames[2].step = 3
    /\ adapter.frames[2].flying = {"putPublicAccessBlock"}

\* C33 as stated: when the promise of the create, update or delete that the
\* loop called has settled, no client call started by it, or by a method it
\* fell back to, is in flight.
C33_SettlesAfterAllCalls ==
    (adapter.frames # <<>> /\ adapter.frames[1].pc = "done") =>
        \A f \in 1..Len(adapter.frames) : adapter.frames[f].flying = {}

\* C34 as stated: when the promise of the create, update or delete that the
\* loop called has resolved, no client call started by it, or by a method it
\* fell back to, has failed with AccessDenied, which is neither transient nor
\* a condition of a fallback.
C34_NoFailureDropped ==
    (adapter.frames # <<>> /\ adapter.frames[1].out = "ok") =>
        \A f \in 1..Len(adapter.frames) :
            \A r \in adapter.frames[f].rejected : r[2] # "AccessDenied"

\* C38 as stated, for the fallbacks of one call: a create or update of a
\* bucket does not come back, through its fallbacks, to a method it is
\* already in with the same definition.
C38_FallbacksEnd ==
    adapter.kind = "s3" =>
        \A f, g \in 1..Len(adapter.frames) :
            f < g => ~(/\ adapter.frames[f].fn = adapter.frames[g].fn
                       /\ adapter.frames[f].arg = adapter.frames[g].arg)


\* ------------------------------------------ claims on the policies of a role
\* The requests of a call sent since the helper or method was called, as a
\* set of positions of sent.
SentAt(call) == {i \in 1..Len(client.sent) : client.sent[i].call = call}

\* C32 as stated: when IAMRole.update has resolved, the names of the inline
\* policies of the role are the names derived from the policies of the
\* definition.
C32_PolicyNamesSynchronized ==
    Resolved("IAMRole.update") =>
        client.rolePolicies = Range(ExpectedPolicyNames(RoleName, client.arg))

\* The part of C32 that the update of an existing role whose policies were
\* listed completely satisfies: it has then deleted exactly the names the
\* role had and the definition lacks, put exactly the names the definition
\* has and the role lacked, each once, and the role has the expected names.
C32_ExistingRoleSynchronized ==
    (Resolved("IAMRole.update") /\ SentAt("CreateRole") = {} /\ ~client.truncated) =>
        LET expected == Range(ExpectedPolicyNames(RoleName, client.arg))
            before == client.before.rolePolicies
        IN  /\ client.rolePolicies = expected
            /\ {client.sent[i].arg : i \in SentAt("DeleteRolePolicy")} = before \ expected
            /\ {client.sent[i].arg : i \in SentAt("PutRolePolicy")} = expected \ before
            /\ Cardinality(SentAt("DeleteRolePolicy")) = Cardinality(before \ expected)
            /\ Cardinality(SentAt("PutRolePolicy")) = Cardinality(expected \ before)

====
